---- MODULE Spec2Model ----
(***************************************************************************)
(* A model of the reactive core of the repository: the instance event bus  *)
(* (core/instance/events.js), the observer (core/observer/index.js and the *)
(* array interceptor), and the instance state (core/instance/state.js).    *)
(***************************************************************************)
EXTENDS Integers, Sequences, FiniteSets, TLC

(***************************************************************************)
(* The state.  Each part of the program has its own variables; an action   *)
(* of one part leaves the variables of the other parts unchanged.          *)
(***************************************************************************)
VARIABLES
  \* the event bus of one instance
  vmEvents,   \* vm._events: [EventNames -> [isNull, cbs]]
  lastEmit,   \* what the last $emit did: its event, the list it found, its calls
  \* one observable target and the values it holds
  target,     \* the target object: its kind, array elements, own named properties, __ob__
  k1Observed, \* whether the plain object k1 carries an observer
  shouldObserve, \* the module-level switch of observer/index.js
  lastOp,     \* what the last observer operation was, returned and notified
  \* the state of one instance
  vm,         \* its computed function, data, the subscribers of each data Dep, its watchers
  queue,      \* the scheduler's queue of watchers
  log,        \* what the watch callback has pushed
  lastRx,     \* what the last operation on the instance did
  rxHist,     \* the history: reads and evaluations of c since a write, the place in Scenario A
  \* the constructors and the global API
  gl,         \* the constructors, their options objects, the installed plugins
  lastGl,     \* what the last operation of the global API did and returned
  \* option merging
  mg,         \* the two sides of a merge and what the last merge step returned
  \* the state of an instance under construction
  inst,       \* the options of the instance and what its initialisation produced
  \* the template compiler
  cp,         \* the input of a compiler pass, its position and what it has emitted
  \* deep watching
  tv,         \* the object graph, the shared set seenObjects, what the calls of traverse did
  \* the listeners a parent attaches to a component
  ul          \* the listeners, the invokers registered in vm._events, what was called

evVars == << vmEvents, lastEmit >>
obVars == << target, k1Observed, shouldObserve, lastOp >>
rxVars == << vm, queue, log, lastRx, rxHist >>

glVars == << gl, lastGl >>
mgVars == << mg >>
inVars == << inst >>
cpVars == << cp >>
tvVars == << tv >>
ulVars == << ul >>

vars == << evVars, obVars, rxVars, glVars, mgVars, inVars, cpVars, tvVars, ulVars >>

\* what the operations of one part leave alone
exceptEv == << obVars, rxVars, glVars, mgVars, inVars, cpVars, tvVars, ulVars >>
exceptOb == << evVars, rxVars, glVars, mgVars, inVars, cpVars, tvVars, ulVars >>
exceptRx == << evVars, obVars, glVars, mgVars, inVars, cpVars, tvVars, ulVars >>
exceptGl == << evVars, obVars, rxVars, mgVars, inVars, cpVars, tvVars, ulVars >>
exceptMg == << evVars, obVars, rxVars, glVars, inVars, cpVars, tvVars, ulVars >>
exceptIn == << evVars, obVars, rxVars, glVars, mgVars, cpVars, tvVars, ulVars >>
exceptCp == << evVars, obVars, rxVars, glVars, mgVars, inVars, tvVars, ulVars >>
exceptTv == << evVars, obVars, rxVars, glVars, mgVars, inVars, cpVars, ulVars >>
exceptUl == << evVars, obVars, rxVars, glVars, mgVars, inVars, cpVars, tvVars >>

\* a part that a specification is not about stays as it is
GlIdle == gl = "idle" /\ lastGl = "idle"
MgIdle == mg = "idle"
InIdle == inst = "idle"
CpIdle == cp = "idle"
TvIdle == tv = "idle"
UlIdle == ul = "idle"

(***************************************************************************)
(* Shared helpers                                                          *)
(***************************************************************************)

\* the elements of a sequence
Range(seq) == {seq[i] : i \in 1..Len(seq)}

\* seq without its i-th element (Array.prototype.splice(i, 1))
RemoveAt(seq, i) == [j \in 1..(Len(seq) - 1) |-> IF j < i THEN seq[j] ELSE seq[j + 1]]

\* the largest element of a non-empty set of integers
SetMax(S) == CHOOSE x \in S : \A y \in S : y <= x

(***************************************************************************)
(* PART 1 - the event bus: $on, $once, $off, $emit                         *)
(*                                                                         *)
(* vm._events maps an event name to an array of handlers, or to null.      *)
(* A handler is a function: a user function fn (w = 0), or the shim `on`   *)
(* that $once builds around fn (w > 0 is the identity of that closure, ev  *)
(* the event name it closed over).                                         *)
(***************************************************************************)

EventNames == {"e1", "e2"}

\* the user functions handed to $on / $once; what each does when called is Body
Fns == {"fa", "fb", "fc", "fd", "fe", "ff", "fg", "fh"}

\* bound: the handlers registered for event e1
MaxHandlers == 3

\* the user functions the environment registers through $once
OnceFns == {"fa", "fb", "fh"}

NoEvent == "-"

UserFn(f) == [fn |-> f, w |-> 0, ev |-> NoEvent]

\* what a user function does to the instance it is called on
Body(f) ==
  CASE f = "fa" -> << >>
    [] f = "fb" -> << [op |-> "off", argc |-> 2, ev |-> "e1", fn |-> "fb"] >>
    [] f = "fc" -> << [op |-> "on", argc |-> 2, ev |-> "e1", fn |-> "fa"] >>
    [] f = "fd" -> << [op |-> "off", argc |-> 2, ev |-> "e1", fn |-> "fa"] >>
    [] f = "fe" -> << [op |-> "off", argc |-> 1, ev |-> "e1", fn |-> "fa"] >>
    [] f = "ff" -> << [op |-> "off", argc |-> 0, ev |-> "e1", fn |-> "fa"] >>
    [] f = "fg" -> << [op |-> "once", argc |-> 2, ev |-> "e1", fn |-> "fa"] >>
    [] f = "fh" -> << [op |-> "emit", argc |-> 1, ev |-> "e1", fn |-> "fa"] >>

\* fh re-emits its own event: registered with $on it would recurse without end,
\* so the environment only registers it through $once
ReEmits(f) == f = "fh"

NullList == [isNull |-> TRUE, cbs |-> << >>]

NoEmit == [event |-> NoEvent, before |-> << >>, calls |-> << >>]

(* Within one operation the arrays are heap objects: arrs[id] is the content
   of array id, ev[name] the id that vm._events[name] refers to (0: null).
   An array that _events no longer refers to keeps its content, as a local
   variable of a running $emit may still refer to it. *)
EvHeap(events) ==
  LET names == <<"e1", "e2">>
  IN [ arrs  |-> [i \in 1..2 |-> events[names[i]].cbs],
       ev    |-> [n \in EventNames |->
                    IF events[n].isNull THEN 0 ELSE IF n = "e1" THEN 1 ELSE 2],
       uid   |-> SetMax({0} \cup UNION {{events[n].cbs[i].w : i \in 1..Len(events[n].cbs)}
                                          : n \in EventNames}),
       calls |-> << >> ]

\* the closures of $once carry no order: renumber them by position
EvFlat(s) ==
  (IF s.ev["e1"] = 0 THEN << >> ELSE s.arrs[s.ev["e1"]]) \o
  (IF s.ev["e2"] = 0 THEN << >> ELSE s.arrs[s.ev["e2"]])

EvRenumber(s, cb) ==
  IF cb.w = 0 THEN cb
  ELSE LET flat == EvFlat(s)
           first == CHOOSE i \in 1..Len(flat) :
                      /\ flat[i].w = cb.w
                      /\ \A j \in 1..(i - 1) : flat[j].w # cb.w
       IN [cb EXCEPT !.w = Cardinality({flat[j].w : j \in 1..first} \ {0})]

EvStore(s) ==
  [n \in EventNames |->
     IF s.ev[n] = 0 THEN NullList
     ELSE [isNull |-> FALSE,
           cbs |-> [i \in 1..Len(s.arrs[s.ev[n]]) |-> EvRenumber(s, s.arrs[s.ev[n]][i])]]]

\* Vue.prototype.$on, for one event name
vmOn(s, event, fn) ==
  IF s.ev[event] # 0
  THEN [s EXCEPT !.arrs[s.ev[event]] = Append(@, fn)]
  ELSE [s EXCEPT !.arrs = Append(@, <<fn>>), !.ev[event] = Len(s.arrs) + 1]

\* Vue.prototype.$once: a fresh closure `on` with on.fn = fn
vmOnce(s, event, f) ==
  vmOn([s EXCEPT !.uid = @ + 1], event, [fn |-> f, w |-> s.uid + 1, ev |-> event])

\* cb === fn || cb.fn === fn
offMatches(cb, fn) ==
  IF fn.w = 0 THEN cb.fn = fn.fn ELSE cb = fn

\* Vue.prototype.$off, with argc arguments
vmOff(s, argc, event, fn) ==
  IF argc = 0 THEN [s EXCEPT !.ev = [n \in EventNames |-> 0]]
  ELSE IF s.ev[event] = 0 THEN s
  ELSE IF argc = 1 THEN [s EXCEPT !.ev[event] = 0]
  ELSE LET cbs == s.arrs[s.ev[event]]
           hits == {i \in 1..Len(cbs) : offMatches(cbs[i], fn)}
       IN IF hits = {} THEN s
          ELSE [s EXCEPT !.arrs[s.ev[event]] = RemoveAt(cbs, SetMax(hits))]

\* a $emit that never copies the handler list
emitCbsLive(s, event) == [ref |-> s.ev[event], copy |-> << >>]

\* cbs = cbs.length > 1 ? toArray(cbs) : cbs
\* ref # 0: the local cbs is the live array ref; ref = 0: it is the copy
emitCbs(s, event) ==
  LET live == s.arrs[s.ev[event]]
  IN IF Len(live) > 1 THEN [ref |-> 0, copy |-> live]
     ELSE [ref |-> s.ev[event], copy |-> << >>]

RECURSIVE vmEmit(_, _, _), emitLoop(_, _, _, _, _), invokeHandler(_, _, _), runBody(_, _, _)

\* Vue.prototype.$emit at call depth d
vmEmit(s, event, d) ==
  IF s.ev[event] = 0 THEN s
  ELSE emitLoop(s, emitCbs(s, event), 1, Len(s.arrs[s.ev[event]]), d)

\* for (let i = 0, l = cbs.length; i < l; i++) invokeWithErrorHandling(cbs[i], ...)
emitLoop(s, cbs, i, l, d) ==
  IF i > l THEN s
  ELSE LET arr == IF cbs.ref = 0 THEN cbs.copy ELSE s.arrs[cbs.ref]
       IN IF i > Len(arr)
          THEN emitLoop(s, cbs, i + 1, l, d)  \* cbs[i] is undefined: the invoker traps the error
          ELSE emitLoop(invokeHandler(s, arr[i], d), cbs, i + 1, l, d)

\* a call of cb: the $once shim removes itself and then calls fn
invokeHandler(s, cb, d) ==
  LET called == [s EXCEPT !.calls = Append(@, [cb |-> cb, depth |-> d])]
  IN IF cb.w > 0
     THEN runBody(vmOff(called, 2, cb.ev, cb), Body(cb.fn), d)
     ELSE runBody(called, Body(cb.fn), d)

runBody(s, ops, d) ==
  IF ops = << >> THEN s
  ELSE LET o == Head(ops)
           t == CASE o.op = "on" -> vmOn(s, o.ev, UserFn(o.fn))
                  [] o.op = "once" -> vmOnce(s, o.ev, o.fn)
                  [] o.op = "off" -> vmOff(s, o.argc, o.ev, UserFn(o.fn))
                  [] o.op = "emit" -> vmEmit(s, o.ev, d + 1)
       IN runBody(t, Tail(ops), d)

\* the environment registers while there is room; e2 holds at most one handler
EvRoom(events, event) ==
  IF event = "e1" THEN Len(events[event].cbs) < MaxHandlers ELSE events[event].cbs = << >>

EvInit ==
  /\ vmEvents = [n \in EventNames |-> NullList]
  /\ lastEmit = NoEmit

EvOn ==
  \E event \in EventNames, f \in Fns :
    /\ EvRoom(vmEvents, event)
    /\ ~ReEmits(f)
    /\ event = "e2" => f = "fa"
    /\ vmEvents' = EvStore(vmOn(EvHeap(vmEvents), event, UserFn(f)))
    /\ lastEmit' = NoEmit
    /\ UNCHANGED exceptEv

EvOnce ==
  \E event \in EventNames, f \in OnceFns :
    /\ EvRoom(vmEvents, event)
    /\ event = "e1"
    /\ vmEvents' = EvStore(vmOnce(EvHeap(vmEvents), event, f))
    /\ lastEmit' = NoEmit
    /\ UNCHANGED exceptEv

EvOff ==
  \E argc \in 0..2, event \in EventNames, f \in Fns :
    /\ argc < 2 => f = "fa"
    /\ argc = 0 => event = "e1"
    /\ event = "e2" => f = "fa"
    /\ vmEvents' = EvStore(vmOff(EvHeap(vmEvents), argc, event, UserFn(f)))
    /\ lastEmit' = NoEmit
    /\ UNCHANGED exceptEv

EvEmit ==
  \E event \in EventNames :
    LET s == vmEmit(EvHeap(vmEvents), event, 0)
    IN /\ Len(EvStore(s)["e1"].cbs) <= MaxHandlers
       /\ vmEvents' = EvStore(s)
       /\ lastEmit' = [event |-> event, before |-> vmEvents[event].cbs, calls |-> s.calls]
       /\ UNCHANGED exceptEv

EvNext == EvOn \/ EvOnce \/ EvOff \/ EvEmit

(***************************************************************************)
(* PART 2 - the observer: observe, Observer, defineReactive, the array     *)
(* interceptor, set and del.                                               *)
(*                                                                         *)
(* The heap holds one target t (an array, a plain object or a Vue          *)
(* instance) and the values stored in it: the primitive p1, the extensible *)
(* plain object k1 and the frozen plain object fz.  A named own property   *)
(* of t is a cell [own, val, layers]: layers = 0 is a data property, and   *)
(* every defineReactive on the key wraps one more accessor (with its own   *)
(* Dep) around what was there.                                             *)
(***************************************************************************)

Undefined == "undefined"
NaN == "NaN"

\* values stored into the target
Vals == {"p1", "k1", "fz"}

\* named keys; toString is also a key of Object.prototype
Keys == {"x", "toString"}

methodsToPatch == {"push", "pop", "shift", "unshift", "splice", "sort", "reverse"}

\* bound: the length of the array
MaxLen == 2
\* bound: the values passed to one push, unshift or splice
MaxArgs == 1
\* bound: the instances that use the target as their root $data
MaxVmCount == 1
\* bound: the accessors wrapped around one property
MaxLayers == 2

NamedKey(n) == [n |-> n, i |-> -1]
IndexKey(i) == [n |-> "", i |-> i]
NoKey == [n |-> "", i |-> -1]

NoOb == [o |-> Undefined, born |-> 0]
AbsentCell == [own |-> FALSE, val |-> Undefined, layers |-> 0]
NoOp == [op |-> "none", key |-> NoKey, items |-> << >>, had |-> FALSE, preOwn |-> FALSE,
         ret |-> NoOb, retVal |-> Undefined, trace |-> << >>, newDeps |-> 0]

\* a === b
StrictEquals(a, b) == a = b /\ a # NaN

isObject(v) == v \in {"t", "k1", "fz"}
isServerRendering == FALSE
isValidArrayIndex(key) == key.i >= 0
InObjectPrototype(key) == key.n = "toString"

(* Within one operation h is the heap: the target, the observers, the
   switch, the Deps made so far (newDeps), the notifications sent so far
   (trace) and the observer the last observe returned (retOb).  An observer
   is named by its object and by born: 0 when it existed before the
   operation, else the serial number of its Dep within the operation. *)
ObHeap ==
  [ kind |-> target.kind, elems |-> target.elems, props |-> target.props,
    ob |-> [has |-> target.ob.has, vmCount |-> target.ob.vmCount,
            enumerable |-> target.ob.enumerable, born |-> 0],
    kob |-> [has |-> k1Observed, born |-> 0],
    should |-> shouldObserve, trace |-> << >>, newDeps |-> 0, retOb |-> NoOb,
    retVal |-> Undefined ]

ObTarget(h) ==
  [ kind |-> h.kind, elems |-> h.elems, props |-> h.props,
    ob |-> [has |-> h.ob.has, vmCount |-> h.ob.vmCount, enumerable |-> h.ob.enumerable] ]

IsArray(h, v) == v = "t" /\ h.kind = "array"
isPlainObject(h, v) == v \in {"k1", "fz"} \/ (v = "t" /\ h.kind \in {"object", "vue"})
isExtensible(v) == v # "fz"
isVue(h, v) == v = "t" /\ h.kind = "vue"

\* hasOwn(value, '__ob__') && value.__ob__ instanceof Observer
hasOb(h, v) == (v = "t" /\ h.ob.has) \/ (v = "k1" /\ h.kob.has)
obOf(h, v) == [o |-> v, born |-> IF v = "t" THEN h.ob.born ELSE h.kob.born]
Observed(h) == {o \in {"t", "k1"} : hasOb(h, o)}

\* the Dep of the observer of o, and the Dep of layer l of property k of t
ObDep(o) == [o |-> o, k |-> "__ob__", l |-> 0]
PropDep(k, l) == [o |-> "t", k |-> k, l |-> l]

\* new Dep()
newDep(h) == [h EXCEPT !.newDeps = @ + 1]

NoDep == [o |-> "", k |-> "", l |-> 0]

\* dep.notify(), seen from outside: which Dep, and what was observed by then
notify(h, dep) ==
  [h EXCEPT !.trace = Append(@, [ev |-> "notify", dep |-> dep, v |-> Undefined,
                                 observed |-> Observed(h)])]

\* a call of observe(value), seen from outside
observeCalled(h, value) ==
  [h EXCEPT !.trace = Append(@, [ev |-> "observe", dep |-> NoDep, v |-> value,
                                 observed |-> Observed(h)])]

\* Object.keys(value): the enumerable own keys
ownKeys(h, v) ==
  IF v # "t" THEN << >>
  ELSE (IF h.props["x"].own THEN <<"x">> ELSE << >>) \o
       (IF h.props["toString"].own THEN <<"toString">> ELSE << >>)

RECURSIVE observe(_, _, _), Observer(_, _), walk(_, _), observeArray(_, _),
          defineReactive(_, _, _, _)

\* an observe that does not look for an existing __ob__
observeAgain(h0, value, asRootData) ==
  LET h == observeCalled(h0, value) IN
  IF ~isObject(value) THEN [h EXCEPT !.retOb = NoOb]
  ELSE LET h1 == IF /\ h.should
                    /\ ~isServerRendering
                    /\ (IsArray(h, value) \/ isPlainObject(h, value))
                    /\ isExtensible(value)
                    /\ ~isVue(h, value)
                 THEN LET n == Observer(h, value) IN [n EXCEPT !.retOb = obOf(n, value)]
                 ELSE [h EXCEPT !.retOb = NoOb]
       IN IF asRootData /\ h1.retOb # NoOb
          THEN [h1 EXCEPT !.ob.vmCount = @ + 1]
          ELSE h1

\* observe(value, asRootData); the observer it returns is retOb
observe(h0, value, asRootData) ==
  LET h == observeCalled(h0, value) IN
  IF ~isObject(value) THEN [h EXCEPT !.retOb = NoOb]
  ELSE LET h1 == IF hasOb(h, value) THEN [h EXCEPT !.retOb = obOf(h, value)]
                 ELSE IF /\ h.should
                         /\ ~isServerRendering
                         /\ (IsArray(h, value) \/ isPlainObject(h, value))
                         /\ isExtensible(value)
                         /\ ~isVue(h, value)
                 THEN LET n == Observer(h, value) IN [n EXCEPT !.retOb = obOf(n, value)]
                 ELSE [h EXCEPT !.retOb = NoOb]
       IN IF asRootData /\ h1.retOb # NoOb
          THEN [h1 EXCEPT !.ob.vmCount = @ + 1]
          ELSE h1

\* new Observer(value): a Dep, the non-enumerable __ob__, then the elements or keys
Observer(h, value) ==
  LET h1 == newDep(h)
      h2 == IF value = "t"
            THEN [h1 EXCEPT !.ob = [has |-> TRUE, vmCount |-> 0,
                                    enumerable |-> FALSE, born |-> h1.newDeps]]
            ELSE [h1 EXCEPT !.kob = [has |-> TRUE, born |-> h1.newDeps]]
  IN IF IsArray(h2, value)
     THEN observeArray(h2, h2.elems)
     ELSE walk(h2, ownKeys(h2, value))

\* Observer.walk
walk(h, keys) ==
  IF keys = << >> THEN h
  ELSE walk(defineReactive(h, Head(keys), Undefined, 2), Tail(keys))

\* Observer.observeArray
observeArray(h, items) ==
  IF items = << >> THEN h
  ELSE observeArray(observe(h, Head(items), FALSE), Tail(items))

\* defineReactive(t, key, val) called with argc arguments
defineReactive(h, key, val, argc) ==
  LET h1 == newDep(h)
      cell == h1.props[key]
      getter == cell.own /\ cell.layers > 0
      setter == getter
      v == IF (~getter \/ setter) /\ argc = 2 THEN cell.val ELSE val
      h2 == observe(h1, v, FALSE)
  IN [h2 EXCEPT !.props[key] =
        IF getter THEN [cell EXCEPT !.layers = @ + 1]   \* get: getter.call(obj)
        ELSE [own |-> TRUE, val |-> v, layers |-> 1]]

\* newVal === value || (newVal !== newVal && value !== value)
setterSkips(newVal, value) ==
  StrictEquals(newVal, value) \/ (~StrictEquals(newVal, newVal) /\ ~StrictEquals(value, value))

RECURSIVE setterLayers(_, _, _, _)

\* the wrapped setters return from the innermost outwards:
\* childOb = !shallow && observe(newVal); dep.notify()
setterLayers(h, key, newVal, l) ==
  IF l > h.props[key].layers THEN h
  ELSE setterLayers(notify(observe(h, newVal, FALSE), PropDep(key, l)), key, newVal, l + 1)

\* reactiveSetter of property key of t
reactiveSetter(h, key, newVal) ==
  IF setterSkips(newVal, h.props[key].val) THEN h
  ELSE setterLayers([h EXCEPT !.props[key].val = newVal], key, newVal, 1)

\* t[key] = val
assign(h, key, val) ==
  IF h.props[key].own /\ h.props[key].layers > 0
  THEN reactiveSetter(h, key, val)
  ELSE [h EXCEPT !.props[key] = [own |-> TRUE, val |-> val, layers |-> 0]]

\* the position of a value under the default sort: by its string, undefined last
SortRank(v) == IF v = Undefined THEN 3 ELSE IF isObject(v) THEN 2 ELSE 1

RECURSIVE SortInsert(_, _), SortAll(_)
SortInsert(sorted, v) ==
  IF sorted = << >> THEN << v >>
  ELSE IF SortRank(v) < SortRank(Head(sorted)) THEN << v >> \o sorted
  ELSE << Head(sorted) >> \o SortInsert(Tail(sorted), v)
SortAll(seq) ==
  IF seq = << >> THEN << >>
  ELSE SortInsert(SortAll(SubSeq(seq, 1, Len(seq) - 1)), seq[Len(seq)])

\* arrayProto[method].apply(this, args)
original(elems, method, args) ==
  CASE method = "push" -> elems \o args.items
    [] method = "pop" -> SubSeq(elems, 1, Len(elems) - 1)
    [] method = "shift" -> SubSeq(elems, 2, Len(elems))
    [] method = "unshift" -> args.items \o elems
    [] method = "splice" ->
         LET s == IF args.start > Len(elems) THEN Len(elems) ELSE args.start
             d == IF args.dc > Len(elems) - s THEN Len(elems) - s ELSE args.dc
         IN SubSeq(elems, 1, s) \o args.items \o SubSeq(elems, s + d + 1, Len(elems))
    [] method = "sort" -> SortAll(elems)
    [] method = "reverse" -> [i \in 1..Len(elems) |-> elems[Len(elems) + 1 - i]]

\* an interceptor that notifies before it observes what was inserted
mutatorNotifyFirst(h, method, args) ==
  LET h1 == notify([h EXCEPT !.elems = original(h.elems, method, args)], ObDep("t"))
  IN IF method \in {"push", "unshift", "splice"}
     THEN observeArray(h1, args.items)
     ELSE h1

\* the interceptor of array.js
mutator(h, method, args) ==
  LET h1 == [h EXCEPT !.elems = original(h.elems, method, args)]
      h2 == IF method \in {"push", "unshift", "splice"}
            THEN observeArray(h1, args.items)
            ELSE h1
  IN notify(h2, ObDep("t"))

\* this[method](...args): the interceptor once protoAugment has run, else Array.prototype
callMethod(h, method, args) ==
  IF h.ob.has THEN mutator(h, method, args)
  ELSE [h EXCEPT !.elems = original(h.elems, method, args)]

\* key in target
keyIn(h, key) == h.props[key.n].own \/ InObjectPrototype(key)

\* target.length = n, for n >= target.length
setLength(elems, n) == [i \in 1..n |-> IF i <= Len(elems) THEN elems[i] ELSE Undefined]

\* set(t, key, val), up to its return
setBody(h, key, val) ==
  IF h.kind = "array" /\ isValidArrayIndex(key)
  THEN LET n == IF Len(h.elems) > key.i THEN Len(h.elems) ELSE key.i
       IN callMethod([h EXCEPT !.elems = setLength(h.elems, n)], "splice",
                     [start |-> key.i, dc |-> 1, items |-> << val >>])
  ELSE IF keyIn(h, key) /\ ~InObjectPrototype(key) THEN assign(h, key.n, val)
  ELSE IF h.kind = "vue" \/ (h.ob.has /\ h.ob.vmCount > 0) THEN h
  ELSE IF ~h.ob.has THEN assign(h, key.n, val)
  ELSE notify(defineReactive(h, key.n, val, 3), ObDep("t"))

\* set(t, key, val): every branch returns val
set(h, key, val) == [setBody(h, key, val) EXCEPT !.retVal = val]

\* a del that does not reject an instance or root $data
delNoReject(h, key) ==
  IF h.kind = "array" /\ isValidArrayIndex(key)
  THEN callMethod(h, "splice", [start |-> key.i, dc |-> 1, items |-> << >>])
  ELSE IF ~h.props[key.n].own THEN h
  ELSE LET h1 == [h EXCEPT !.props[key.n] = AbsentCell]
       IN IF ~h.ob.has THEN h1 ELSE notify(h1, ObDep("t"))

\* a del that does not look whether the key is an own property
delNoHasOwn(h, key) ==
  IF h.kind = "array" /\ isValidArrayIndex(key)
  THEN callMethod(h, "splice", [start |-> key.i, dc |-> 1, items |-> << >>])
  ELSE IF h.kind = "vue" \/ (h.ob.has /\ h.ob.vmCount > 0) THEN h
  ELSE LET h1 == [h EXCEPT !.props[key.n] = AbsentCell]
       IN IF ~h.ob.has THEN h1 ELSE notify(h1, ObDep("t"))

\* del(t, key)
del(h, key) ==
  IF h.kind = "array" /\ isValidArrayIndex(key)
  THEN callMethod(h, "splice", [start |-> key.i, dc |-> 1, items |-> << >>])
  ELSE IF h.kind = "vue" \/ (h.ob.has /\ h.ob.vmCount > 0) THEN h
  ELSE IF ~h.props[key.n].own THEN h
  ELSE LET h1 == [h EXCEPT !.props[key.n] = AbsentCell]
       IN IF ~h.ob.has THEN h1 ELSE notify(h1, ObDep("t"))

\* what the environment passes
ArgItems == UNION {[1..n -> Vals] : n \in 0..MaxArgs}
\* the environment passes an index to the array and a name to an object
ObKeys(kind) ==
  IF kind = "array" THEN {IndexKey(i) : i \in 0..MaxLen} ELSE {NamedKey(k) : k \in Keys}

ObFits(h) ==
  /\ Len(h.elems) <= MaxLen
  /\ h.ob.vmCount <= MaxVmCount
  /\ \A k \in Keys : h.props[k].layers <= MaxLayers

ObCommit(h, op, key, items, had) ==
  /\ ObFits(h)
  /\ target' = ObTarget(h)
  /\ k1Observed' = h.kob.has
  /\ shouldObserve' = h.should
  /\ lastOp' = [op |-> op, key |-> key, items |-> items, had |-> had,
                preOwn |-> key.n \in Keys /\ target.props[key.n].own,
                ret |-> h.retOb, retVal |-> h.retVal, trace |-> h.trace,
                newDeps |-> h.newDeps]
  /\ UNCHANGED exceptOb

ObInit ==
  /\ \E kind \in {"array", "object", "vue"} :
       target = [ kind |-> kind,
                  elems |-> << >>,
                  \* an instance has the properties it was built with
                  props |-> [k \in Keys |-> IF kind = "vue" /\ k = "x"
                                            THEN [own |-> TRUE, val |-> "p1", layers |-> 0]
                                            ELSE AbsentCell],
                  ob |-> [has |-> FALSE, vmCount |-> 0, enumerable |-> FALSE] ]
  /\ k1Observed = FALSE
  /\ shouldObserve = TRUE
  /\ lastOp = NoOp

\* the other parts, when they are not the part a specification is about
ObIdle ==
  /\ target = [kind |-> "object", elems |-> << >>, props |-> [k \in Keys |-> AbsentCell],
               ob |-> [has |-> FALSE, vmCount |-> 0, enumerable |-> FALSE]]
  /\ k1Observed = FALSE
  /\ shouldObserve = TRUE
  /\ lastOp = NoOp

EvIdle ==
  /\ vmEvents = [n \in EventNames |-> NullList]
  /\ lastEmit = NoEmit

\* observe(value, asRootData)
ObObserve ==
  \E v \in Vals \cup {"t"}, asRootData \in BOOLEAN :
    \* initState and initData pass asRootData for the plain object vm._data
    /\ asRootData => v = "t" /\ target.kind = "object"
    /\ ObCommit(observe(ObHeap, v, asRootData), "observe", NoKey, << v >>, hasOb(ObHeap, v))

\* toggleObserving(value)
ObToggle ==
  \E value \in BOOLEAN :
    ObCommit([ObHeap EXCEPT !.should = value], "toggle", NoKey, << >>, FALSE)

\* a call of one of the seven mutating methods on the array
ObMutate ==
  \E method \in methodsToPatch, items \in ArgItems, start \in 0..MaxLen, dc \in 0..1 :
    /\ target.kind = "array"
    /\ method \notin {"push", "unshift", "splice"} => items = << >>
    /\ method # "splice" => start = 0 /\ dc = 0
    /\ start <= Len(target.elems)
    /\ ObCommit(callMethod(ObHeap, method, [start |-> start, dc |-> dc, items |-> items]),
                method, IndexKey(start), items, target.ob.has)

\* set(target, key, val)
ObSet ==
  \E key \in ObKeys(target.kind), val \in Vals :
    ObCommit(set(ObHeap, key, val), "set", key, << val >>, target.ob.has)

\* del(target, key)
ObDel ==
  \E key \in ObKeys(target.kind) :
    ObCommit(del(ObHeap, key), "del", key, << >>, target.ob.has)

ObNext == ObObserve \/ ObToggle \/ ObMutate \/ ObSet \/ ObDel

(***************************************************************************)
(* PART 3 - the state of one instance (core/instance/state.js): data       *)
(* properties proxied on the instance, one cached computed property c and  *)
(* one watcher made by $watch.  Dep, Watcher and the scheduler are         *)
(* imported by state.js from files that are not part of the sources; they  *)
(* are written here as the specification describes them.                   *)
(*                                                                         *)
(* Values of data properties are numbers, written as numerals, and NaN.    *)
(***************************************************************************)

\* the longest log
MaxLog == 2

Numerals == << "0", "1", "2", "3", "4", "5", "6", "7", "8" >>
ToNumber(v) == CHOOSE n \in 0..(Len(Numerals) - 1) : Numerals[n + 1] = v
ToNumeral(n) == Numerals[n + 1]

\* the values the environment writes to a data property: those of Scenario A
\* and NaN on the instance whose computed function is "double", two values
\* for each property on the other
DataVals(def, key) ==
  IF def = "double" THEN {"1", "3", "4", NaN}
  ELSE IF key = "a" THEN {"1", "3"} ELSE {"0", "1"}

\* the watch expressions of $watch: a data property or the computed property
WatchExps == {"a", "c"}

\* the function of the computed property c: "double" is this.a * 2,
\* "sum" is this.a + this.b
formulaReads(def) == IF def = "double" THEN {"a"} ELSE {"a", "b"}

formulaValue(def, data) ==
  IF \E k \in formulaReads(def) : data[k] = NaN THEN NaN
  ELSE IF def = "double" THEN ToNumeral(ToNumber(data.a) * 2)
  ELSE ToNumeral(ToNumber(data.a) + ToNumber(data.b))

\* Dep.target when no watcher is being evaluated
NoTarget == "none"

\* the computed watcher is made by initComputed before any $watch: its id
\* is the smaller one
NoWatcher == [made |-> FALSE, active |-> FALSE, sync |-> FALSE, exp |-> "a",
              value |-> Undefined, deps |-> {}, newDeps |-> {}]

NoRx == [op |-> "none", key |-> "none", val |-> Undefined, same |-> FALSE,
         notifies |-> 0, updates |-> [w \in {"cw", "uw"} |-> 0], subsBefore |-> {},
         evals |-> 0, dirtyBefore |-> FALSE, cbs |-> 0, unwatchedBefore |-> FALSE]

(* Within one operation r is the heap: the instance's data, the subscriber
   set of each data property's Dep, the computed watcher cw and the user
   watcher uw, the scheduler queue and the log the watch callback pushes to;
   and what the operation did so far: formula evaluations, reads of c,
   dep.notify calls, update calls per watcher, callback calls, and the value
   the last getter returned. *)
RxHeap ==
  [ def |-> vm.def, data |-> vm.data, subs |-> vm.subs, cw |-> vm.cw, uw |-> vm.uw,
    queue |-> queue, log |-> log,
    evals |-> 0, reads |-> 0, notifies |-> 0, updates |-> [w \in {"cw", "uw"} |-> 0],
    cbs |-> 0, ret |-> Undefined ]

\* Dep.depend for each Dep of keys with Dep.target = w: Watcher.addDep
\* records the Dep and subscribes unless w already was subscribed
addDeps(r, w, keys) ==
  [r EXCEPT ![w].newDeps = @ \cup keys,
            !.subs = [k \in DOMAIN @ |-> IF k \in keys /\ k \notin r[w].deps
                                         THEN @[k] \cup {w} ELSE @[k]]]

\* Watcher.cleanupDeps: unsubscribe from the Deps not touched this time,
\* then swap the sets
cleanupDeps(r, w) ==
  [r EXCEPT !.subs = [k \in DOMAIN @ |-> IF k \in r[w].deps /\ k \notin r[w].newDeps
                                         THEN @[k] \ {w} ELSE @[k]],
            ![w].deps = r[w].newDeps,
            ![w].newDeps = {}]

\* proxyGetter, then reactiveGetter of the data property: dep.depend() when
\* Dep.target is set (the value is primitive: there is no childOb)
proxyGetter(r, key, tgt) ==
  [(IF tgt # NoTarget THEN addDeps(r, tgt, {key}) ELSE r) EXCEPT !.ret = r.data[key]]

\* Watcher.get of the computed watcher: the formula runs with the watcher
\* as Dep.target and reads its data properties
computedGet(r) ==
  LET r1 == addDeps(r, "cw", formulaReads(r.def))
  IN [cleanupDeps(r1, "cw") EXCEPT !.evals = @ + 1, !.ret = formulaValue(r.def, r.data)]

\* Watcher.evaluate
evaluate(r) ==
  LET r1 == computedGet(r)
  IN [r1 EXCEPT !.cw.value = r1.ret, !.cw.dirty = FALSE]

\* the mutant of computedGetter that evaluates on every read
computedGetterUncached(r, tgt) ==
  LET r1 == evaluate(r)
      r2 == IF tgt # NoTarget THEN addDeps(r1, tgt, r1.cw.deps) ELSE r1
  IN [r2 EXCEPT !.ret = r2.cw.value, !.reads = @ + 1]

\* computedGetter: evaluate if dirty; watcher.depend() if Dep.target
computedGetter(r, tgt) ==
  LET r1 == IF r.cw.dirty THEN evaluate(r) ELSE r
      r2 == IF tgt # NoTarget THEN addDeps(r1, tgt, r1.cw.deps) ELSE r1
  IN [r2 EXCEPT !.ret = r2.cw.value, !.reads = @ + 1]

\* Watcher.get of the user watcher: its expression is read with the watcher
\* as Dep.target
userGet(r) ==
  cleanupDeps(IF r.uw.exp = "c" THEN computedGetter(r, "uw")
              ELSE proxyGetter(r, r.uw.exp, "uw"), "uw")

\* Watcher.run: nothing when inactive; the callback (log.push(value)) when
\* the value is not identical to the last one (NaN is not identical to NaN)
run(r) ==
  IF ~r.uw.active THEN r
  ELSE LET r1 == userGet(r)
       IN IF StrictEquals(r1.ret, r.uw.value) THEN r1
          ELSE [r1 EXCEPT !.uw.value = r1.ret, !.log = Append(@, r1.ret), !.cbs = @ + 1]

\* queueWatcher: a watcher is in the queue at most once
queueWatcher(r, w) ==
  IF w \in Range(r.queue) THEN r ELSE [r EXCEPT !.queue = Append(@, w)]

\* Watcher.update: lazy sets dirty, sync runs, otherwise the watcher is queued
update(r, w) ==
  LET r1 == [r EXCEPT !.updates[w] = @ + 1]
  IN IF w = "cw" THEN [r1 EXCEPT !.cw.dirty = TRUE]
     ELSE IF r.uw.sync THEN run(r1)
     ELSE queueWatcher(r1, w)

\* Dep.notify: the subscribers of the moment, in the order of their ids
depNotify(r, key) ==
  LET s == r.subs[key]
      r0 == [r EXCEPT !.notifies = @ + 1]
      r1 == IF "cw" \in s THEN update(r0, "cw") ELSE r0
  IN IF "uw" \in s THEN update(r1, "uw") ELSE r1

\* the mutant of proxySetter whose short-circuit does not know NaN
proxySetterStrict(r, key, newVal) ==
  IF StrictEquals(newVal, r.data[key]) THEN r
  ELSE depNotify([r EXCEPT !.data[key] = newVal], key)

\* proxySetter, then reactiveSetter of the data property
proxySetter(r, key, newVal) ==
  IF setterSkips(newVal, r.data[key]) THEN r
  ELSE depNotify([r EXCEPT !.data[key] = newVal], key)

\* flushSchedulerQueue: the queued watchers run in the order of their ids
\* (only the user watcher is ever queued), then the queue is reset
flushSchedulerQueue(r) ==
  [(IF "uw" \in Range(r.queue) THEN run(r) ELSE r) EXCEPT !.queue = << >>]

\* Watcher.teardown
teardown(r) ==
  IF ~r.uw.active THEN r
  ELSE [r EXCEPT !.subs = [k \in DOMAIN @ |-> IF k \in r.uw.deps THEN @[k] \ {"uw"} ELSE @[k]],
                 !.uw.active = FALSE]

\* the mutant of $watch that always calls the callback at registration
vmWatchImmediate(r, exp, sync, immediate) ==
  LET r1 == userGet([r EXCEPT !.uw = [NoWatcher EXCEPT !.made = TRUE, !.active = TRUE,
                                                       !.sync = sync, !.exp = exp]])
      r2 == [r1 EXCEPT !.uw.value = r1.ret]
  IN [r2 EXCEPT !.log = Append(@, r2.uw.value), !.cbs = @ + 1]

\* vm.$watch(exp, v => log.push(v), {sync, immediate}): the new watcher
\* evaluates its expression at once
vmWatch(r, exp, sync, immediate) ==
  LET r1 == userGet([r EXCEPT !.uw = [NoWatcher EXCEPT !.made = TRUE, !.active = TRUE,
                                                       !.sync = sync, !.exp = exp]])
      r2 == [r1 EXCEPT !.uw.value = r1.ret]
  IN IF immediate THEN [r2 EXCEPT !.log = Append(@, r2.uw.value), !.cbs = @ + 1]
     ELSE r2

\* the mutant of unwatchFn that does nothing
unwatchFnNoop(r) == r

\* the closure $watch returns
unwatchFn(r) == teardown(r)

\* initState of new Vue({data, computed: {c}, watch: {c}}): initData,
\* initComputed (a lazy watcher, dirty, not evaluated), initWatch
initState(def, watchOption) ==
  LET data == IF def = "double" THEN [a |-> "1"] ELSE [a |-> "1", b |-> "0"]
      r0 == [ def |-> def, data |-> data, subs |-> [k \in DOMAIN data |-> {}],
              cw |-> [dirty |-> TRUE, value |-> Undefined, deps |-> {}, newDeps |-> {}],
              uw |-> NoWatcher, queue |-> << >>, log |-> << >>,
              evals |-> 0, reads |-> 0, notifies |-> 0,
              updates |-> [w \in {"cw", "uw"} |-> 0], cbs |-> 0, ret |-> Undefined ]
  IN IF watchOption THEN vmWatch(r0, "c", FALSE, FALSE) ELSE r0

RxVm(r) == [def |-> r.def, data |-> r.data, subs |-> r.subs, cw |-> r.cw, uw |-> r.uw]

\* counters of the history stop at two
Cap(n) == IF n > 2 THEN 2 ELSE n

\* the position in Scenario A (instance.a = 3; instance.a = 3;
\* instance.a = 4; flush) after the operation op; -1 when the history is
\* not a prefix of the scenario
ScenarioStep(s, op, key, val) ==
  IF op = "write" /\ key = "a" /\ s = 0 /\ val = "3" THEN 1
  ELSE IF op = "write" /\ key = "a" /\ s = 1 /\ val = "3" THEN 2
  ELSE IF op = "write" /\ key = "a" /\ s = 2 /\ val = "4" THEN 3
  ELSE IF op = "flush" /\ s = 3 THEN 4
  ELSE -1

\* the end of an operation: the heap becomes the state, and the history
\* records what the operation did
RxCommit(r, op, key, val) ==
  LET isWrite == op = "write"
      changes == isWrite /\ val # vm.data[key]
      resets == changes /\ key \in formulaReads(vm.def)
  IN /\ Len(r.log) <= MaxLog
     /\ vm' = RxVm(r)
     /\ queue' = r.queue
     /\ log' = r.log
     /\ lastRx' = [ op |-> op, key |-> IF isWrite THEN key ELSE "none",
                    val |-> val, same |-> isWrite /\ val = vm.data[key],
                    notifies |-> r.notifies, updates |-> r.updates,
                    subsBefore |-> IF isWrite THEN vm.subs[key] ELSE {},
                    evals |-> r.evals, dirtyBefore |-> op = "readC" /\ vm.cw.dirty,
                    cbs |-> r.cbs, unwatchedBefore |-> rxHist.unwatched ]
     /\ rxHist' = [ held |-> rxHist.held \/ op = "watch",
                    unwatched |-> rxHist.unwatched \/ op = "unwatch",
                    evals |-> Cap((IF resets THEN 0 ELSE rxHist.evals) + r.evals),
                    read |-> (~resets /\ rxHist.read) \/ r.reads > 0,
                    afterA |-> IF isWrite THEN key = "a" ELSE rxHist.afterA,
                    aevals |-> Cap((IF isWrite THEN 0 ELSE rxHist.aevals) + r.evals),
                    aread |-> (~isWrite /\ rxHist.aread) \/ r.reads > 0,
                    scenarioA |-> ScenarioStep(rxHist.scenarioA, op, key, val) ]
     /\ UNCHANGED exceptRx

RxInit ==
  \E def \in {"double", "sum"}, watchOption \in BOOLEAN :
    LET r == initState(def, watchOption)
    IN /\ vm = RxVm(r)
       /\ queue = r.queue
       /\ log = r.log
       /\ lastRx = NoRx
       /\ rxHist = [ held |-> FALSE, unwatched |-> FALSE, evals |-> r.evals,
                     read |-> r.reads > 0, afterA |-> FALSE, aevals |-> r.evals,
                     aread |-> r.reads > 0,
                     scenarioA |-> IF def = "double" /\ watchOption THEN 0 ELSE -1 ]

\* this part, when it is not the part a specification is about
RxIdle ==
  /\ vm = RxVm(initState("double", FALSE))
  /\ queue = << >>
  /\ log = << >>
  /\ lastRx = NoRx
  /\ rxHist = [ held |-> FALSE, unwatched |-> FALSE, evals |-> 0, read |-> FALSE,
                afterA |-> FALSE, aevals |-> 0, aread |-> FALSE, scenarioA |-> -1 ]

\* vm[key] = val
RxWrite ==
  \E key \in DOMAIN vm.data :
    \E val \in DataVals(vm.def, key) :
      RxCommit(proxySetter(RxHeap, key, val), "write", key, val)

\* a read of vm[key] outside any watcher
RxReadData ==
  \E key \in DOMAIN vm.data :
    RxCommit(proxyGetter(RxHeap, key, NoTarget), "readData", key, Undefined)

\* a read of vm.c outside any watcher
RxReadComputed ==
  RxCommit(computedGetter(RxHeap, NoTarget), "readC", "c", Undefined)

\* unwatch = vm.$watch(exp, cb, {sync, immediate})
RxWatch ==
  \E exp \in WatchExps, sync \in BOOLEAN, immediate \in BOOLEAN :
    /\ ~vm.uw.made
    /\ RxCommit(vmWatch(RxHeap, exp, sync, immediate), "watch", exp, Undefined)

\* unwatch()
RxUnwatch ==
  /\ rxHist.held
  /\ RxCommit(unwatchFn(RxHeap), "unwatch", "none", Undefined)

\* the scheduler's flush, once a watcher has been queued
RxFlush ==
  /\ queue # << >>
  /\ RxCommit(flushSchedulerQueue(RxHeap), "flush", "none", Undefined)

RxNext == RxWrite \/ RxReadData \/ RxReadComputed \/ RxWatch \/ RxUnwatch \/ RxFlush

InitObserver == ObInit /\ EvIdle /\ RxIdle /\ GlIdle /\ MgIdle /\ InIdle /\ CpIdle /\ TvIdle /\ UlIdle

SpecObserver == InitObserver /\ [][ObNext]_vars

\* the notifications of a trace, and those sent on one Dep
Notifications(trace) == {i \in 1..Len(trace) : trace[i].ev = "notify"}
NotificationsOn(trace, dep) == {i \in Notifications(trace) : trace[i].dep = dep}

\* a value that observe can attach an observer to: an extensible plain object
CanCarryObserver(v) == v = "k1"

\* C2: on an observed array every call of push, pop, shift, unshift, splice,
\* sort or reverse, also one that changes nothing, sends exactly one
\* notification on the array's own observer Dep, and every non-primitive
\* element inserted by push, unshift or splice has been passed to observe
\* (and carries its observer, when it can carry one and observation is on)
\* before that notification is sent.
C2_MutatorNotifiesOnce ==
  (lastOp.op \in methodsToPatch /\ lastOp.had) =>
     /\ Cardinality(NotificationsOn(lastOp.trace, ObDep("t"))) = 1
     /\ \A n \in NotificationsOn(lastOp.trace, ObDep("t")) :
          \A v \in Range(lastOp.items) :
            isObject(v) =>
              /\ \E j \in 1..(n - 1) : lastOp.trace[j].ev = "observe" /\ lastOp.trace[j].v = v
              /\ (CanCarryObserver(v) /\ shouldObserve) => v \in lastOp.trace[n].observed

\* a splice on the observed array inserted the plain object k1
C2_Witness ==
  /\ lastOp.op = "splice"
  /\ lastOp.had
  /\ lastOp.items = << "k1" >>
  /\ k1Observed
  /\ Cardinality(NotificationsOn(lastOp.trace, ObDep("t"))) = 1

\* C6: observe is idempotent: once a value carries an observer, every later
\* observe of it, also while shouldObserve is false, returns that observer
\* and makes no Dep; the __ob__ property is not enumerable.
C6_ObserveIdempotent ==
  /\ (lastOp.op = "observe" /\ lastOp.had) =>
        /\ lastOp.ret = [o |-> lastOp.items[1], born |-> 0]
        /\ lastOp.newDeps = 0
  /\ target.ob.has => ~target.ob.enumerable

\* the observed target was observed again while observation was switched off
C6_Witness ==
  /\ lastOp.op = "observe"
  /\ lastOp.had
  /\ lastOp.items = << "t" >>
  /\ ~shouldObserve
  /\ lastOp.ret = [o |-> "t", born |-> 0]

\* the target is a Vue instance or the root $data of an instance
Rejecting(tg) == tg.kind = "vue" \/ (tg.ob.has /\ tg.ob.vmCount > 0)

\* target[key]
ValueAt(tg, key) ==
  IF key.i >= 0 THEN tg.elems[key.i + 1] ELSE tg.props[key.n].val

\* C7: set(target, key, val) returns val and leaves target[key] = val unless
\* it is rejected; on an observed non-root object and a key not yet present
\* it installs a reactive property and notifies the observer Dep once; on
\* an observed array and a valid index it notifies the array's Dep once
\* through splice; for a key that already exists it only assigns through
\* the existing property and sends no notification on the observer Dep.
C7_SetContract ==
  [][ lastOp'.op = "set" =>
        LET key == lastOp'.key
            val == lastOp'.items[1]
            own == key.i < 0 /\ target.props[key.n].own
            onOb == Cardinality(NotificationsOn(lastOp'.trace, ObDep("t")))
        IN /\ lastOp'.retVal = val
           /\ ~(Rejecting(target) /\ ~own /\ key.i < 0) => ValueAt(target', key) = val
           /\ (target.kind = "object" /\ target.ob.has /\ target.ob.vmCount = 0 /\ ~own) =>
                 /\ target'.props[key.n].own /\ target'.props[key.n].layers >= 1
                 /\ onOb = 1
           /\ (target.kind = "array" /\ target.ob.has) => onOb = 1
           /\ own =>
                 /\ onOb = 0
                 /\ target'.props[key.n].layers = target.props[key.n].layers
     ]_vars

\* C8: set with a key that is not yet present, and del with any key, on a
\* Vue instance or on the root $data of an instance leave the properties of
\* the target and their values as they were and notify nothing.
C8_RejectedOnInstanceAndRoot ==
  [][ ( /\ lastOp'.op \in {"set", "del"}
        /\ Rejecting(target)
        /\ lastOp'.op = "set" => ~target.props[lastOp'.key.n].own )
      => /\ target' = target
         /\ Notifications(lastOp'.trace) = {}
     ]_vars

\* del was called on root $data with a key it owns, and the key is still there
C8_Witness ==
  /\ lastOp.op = "del"
  /\ target.kind = "object"
  /\ target.ob.has /\ target.ob.vmCount > 0
  /\ lastOp.preOwn
  /\ target.props[lastOp.key.n].own

\* C9: del(target, key) on an observed non-root object removes the own
\* property key and notifies the observer Dep exactly once; when key is not
\* an own property nothing is removed and nothing is notified; on an
\* observed array and a valid index the element is removed through the
\* intercepted splice, which notifies the array's Dep exactly once.
C9_DelContract ==
  [][ lastOp'.op = "del" =>
        LET key == lastOp'.key
            onOb == Cardinality(NotificationsOn(lastOp'.trace, ObDep("t")))
        IN /\ (target.kind = "object" /\ target.ob.has /\ target.ob.vmCount = 0) =>
                IF target.props[key.n].own
                THEN /\ target'.props = [target.props EXCEPT ![key.n] = AbsentCell]
                     /\ onOb = 1
                     /\ Cardinality(Notifications(lastOp'.trace)) = 1
                ELSE /\ target' = target
                     /\ Notifications(lastOp'.trace) = {}
           /\ (target.kind = "array" /\ target.ob.has) =>
                /\ target'.elems = IF key.i < Len(target.elems)
                                   THEN RemoveAt(target.elems, key.i + 1)
                                   ELSE target.elems
                /\ onOb = 1
                /\ Cardinality(Notifications(lastOp'.trace)) = 1
     ]_vars

\* del removed an own property of an observed non-root object
C9_Witness ==
  /\ lastOp.op = "del"
  /\ target.kind = "object"
  /\ target.ob.has /\ target.ob.vmCount = 0
  /\ lastOp.preOwn
  /\ ~target.props[lastOp.key.n].own
  /\ Cardinality(NotificationsOn(lastOp.trace, ObDep("t"))) = 1

InitEvents == EvInit /\ ObIdle /\ RxIdle /\ GlIdle /\ MgIdle /\ InIdle /\ CpIdle /\ TvIdle /\ UlIdle

SpecEvents == InitEvents /\ [][EvNext]_vars

\* the handlers the outermost $emit called, in the order of the calls
TopCalls(calls) ==
  LET top == SelectSeq(calls, LAMBDA c : c.depth = 0)
  IN [i \in 1..Len(top) |-> top[i].cb]

\* C10: $emit(name) calls exactly the handlers registered for name when the
\* emit started, each once and in registration order, whatever $on, $once
\* and $off calls those handlers make on the instance during the emit.
C10_EmitCallsSnapshot ==
  lastEmit.event # NoEvent => TopCalls(lastEmit.calls) = lastEmit.before

\* an emit over two or more handlers, one of which changed the list
C10_Witness ==
  /\ lastEmit.event = "e1"
  /\ Len(lastEmit.before) >= 2
  /\ vmEvents["e1"].cbs # lastEmit.before
  /\ TopCalls(lastEmit.calls) = lastEmit.before

(***************************************************************************)
(* C11 - a handler registered with $once is invoked at most once: among    *)
(* the calls of one $emit, the nested ones included, no $once shim is      *)
(* called twice, and a shim that was called is registered no more.         *)
(***************************************************************************)
C11_OnceAtMostOnce ==
  lastEmit.event # NoEvent =>
    LET calls == lastEmit.calls
    IN \A i, j \in 1..Len(calls) :
         i < j /\ calls[i].cb.w > 0 => calls[i].cb # calls[j].cb

\* the names of the user functions behind a list of handlers
HandlerFns(cbs) == [i \in 1..Len(cbs) |-> cbs[i].fn]

(***************************************************************************)
(* C12 - in every state the instance can reach by $on, $once, $off and     *)
(* $emit, and for every function fn: after $off(name, fn) no handler       *)
(* registered for name is fn or a $once shim of fn, so a later $emit(name) *)
(* does not invoke fn; the other handlers are all still registered, in     *)
(* their original order.                                                   *)
(***************************************************************************)
C12_OffRemovesHandler ==
  \A fn \in Fns :
    HandlerFns(EvStore(vmOff(EvHeap(vmEvents), 2, "e1", UserFn(fn)))["e1"].cbs) =
      SelectSeq(HandlerFns(vmEvents["e1"].cbs), LAMBDA f : f # fn)

InitReactive == RxInit /\ EvIdle /\ ObIdle /\ GlIdle /\ MgIdle /\ InIdle /\ CpIdle /\ TvIdle /\ UlIdle

SpecReactive == InitReactive /\ [][RxNext]_vars

(***************************************************************************)
(* C1 - a write to a reactive data property whose value differs from the   *)
(* current one by identity calls notify on the property's Dep exactly once *)
(* and hence update exactly once on every watcher subscribed to it; a      *)
(* write of the identical value, NaN over NaN included, calls neither.     *)
(* The values are numerals and NaN, so two values are identical when they  *)
(* are the same numeral or both NaN.                                       *)
(***************************************************************************)
C1_WriteNotifiesOnce ==
  lastRx.op = "write" =>
    LET n == IF lastRx.same THEN 0 ELSE 1
    IN /\ lastRx.notifies = n
       /\ \A w \in {"cw", "uw"} :
            lastRx.updates[w] = IF w \in lastRx.subsBefore THEN n ELSE 0

\* NaN written over NaN while the computed and the user watcher subscribe
C1_Witness ==
  /\ lastRx.op = "write"
  /\ lastRx.val = NaN
  /\ lastRx.same
  /\ lastRx.subsBefore = {"cw", "uw"}

(***************************************************************************)
(* C3 as stated - after a write to a, whatever the value written, the      *)
(* reads of c that follow run the formula exactly once: the next read runs *)
(* it and the reads after that do not.  A read runs the formula only when  *)
(* the lazy watcher was dirty.                                             *)
(***************************************************************************)
C3_AnyWriteReevaluates ==
  /\ rxHist.afterA /\ rxHist.aread => rxHist.aevals = 1
  /\ lastRx.op = "readC" /\ ~lastRx.dirtyBefore => lastRx.evals = 0

(***************************************************************************)
(* C3 - for the cached computed property c: since the construction or the  *)
(* last write that changed the value of a property the formula reads, the  *)
(* reads of c, however many, have run the formula exactly once; so a write *)
(* that changes a makes the next read run the formula once more and a      *)
(* write of the identical value does not.  A read runs the formula exactly *)
(* when the lazy watcher was dirty.                                        *)
(***************************************************************************)
C3_ComputedCached ==
  /\ rxHist.read => rxHist.evals = 1
  /\ lastRx.op = "readC" => lastRx.evals = (IF lastRx.dirtyBefore THEN 1 ELSE 0)
  /\ vm.cw.dirty <=> rxHist.evals = 0

\* a read of c = a + b that ran the formula, after a write to a
C3_Witness ==
  /\ vm.def = "sum"
  /\ lastRx.op = "readC"
  /\ lastRx.evals = 1
  /\ rxHist.afterA
  /\ lastRx.dirtyBefore

(***************************************************************************)
(* C4 as stated - Scenario A leaves log equal to [6, 8] after the flush.   *)
(***************************************************************************)
C4_ScenarioLogSixEight == rxHist.scenarioA = 4 => log = << "6", "8" >>

(***************************************************************************)
(* C4 - Scenario A (data a = 1, computed c = a * 2, a non-sync,            *)
(* non-immediate watch on c that pushes the new value to log; the writes   *)
(* a = 3, a = 3, a = 4 before the flush) leaves log equal to [8] after the *)
(* flush: the watcher is queued once and runs once.                        *)
(***************************************************************************)
C4_ScenarioLogEight == rxHist.scenarioA = 4 => log = << "8" >>

C4_Witness == rxHist.scenarioA = 4 /\ lastRx.op = "flush" /\ lastRx.cbs = 1

(***************************************************************************)
(* C5 - once the closure returned by $watch has been called, no operation  *)
(* calls the watcher's callback: not a later write to a property it        *)
(* depended on, and not the flush of a run queued before the call.         *)
(***************************************************************************)
C5_NoCallbackAfterUnwatch == lastRx.unwatchedBefore => lastRx.cbs = 0

\* the flush of a run queued before unwatch, the watched value having changed
C5_Witness ==
  /\ lastRx.op = "flush"
  /\ lastRx.unwatchedBefore
  /\ vm.uw.exp = "a"
  /\ vm.uw.value # vm.data.a

(***************************************************************************)
(* PART 4 - the plugins of a constructor: Vue.use.                         *)
(*                                                                         *)
(* gl.ctors is the list of the constructors in the order of their          *)
(* creation, Vue first.                                                    *)
(***************************************************************************)

\* the plugins handed to use: an object with an install method, a function,
\* an object without install, and an object whose install calls use on
\* itself the first time it runs
Plugins == {"pObject", "pFunction", "pPlain", "pReenter"}

\* typeof plugin.install === 'function' || typeof plugin === 'function'
Installable(plugin) == plugin # "pPlain"

RECURSIVE use(_, _, _)

\* Vue.use(plugin) with this = the constructor c
use(g, c, plugin) ==
  IF plugin \in Range(g.ctors[c].installed) THEN [g EXCEPT !.ret = c]
  ELSE LET \* plugin.install.apply(plugin, args) or plugin.apply(null, args)
           called == [g EXCEPT !.calls = Append(@, [plugin |-> plugin, arg |-> c])]
           ran == IF ~Installable(plugin) THEN g
                  ELSE IF plugin = "pReenter" /\ ~g.reentered
                  THEN use([called EXCEPT !.reentered = TRUE], c, plugin)
                  ELSE called
       IN [ran EXCEPT !.ctors[c].installed = Append(@, plugin), !.ret = c]

\* Vue, as initGlobalAPI leaves it
GlVue == [cid |-> 0, installed |-> << >>]

\* the end of an operation: the heap g becomes the state
GlCommit(g, op, c, arg) ==
  /\ gl' = [ctors |-> g.ctors, reentered |-> g.reentered,
            installs |-> [i \in 1..Len(g.ctors) |-> [p \in Plugins |->
               LET before == IF i <= Len(gl.ctors) THEN gl.installs[i][p] ELSE 0
                   now == Cardinality({k \in 1..Len(g.calls) :
                                         g.calls[k] = [plugin |-> p, arg |-> i]})
               IN IF before + now > 2 THEN 2 ELSE before + now]]]
  /\ lastGl' = [op |-> op, ctor |-> c, arg |-> arg, calls |-> g.calls, ret |-> g.ret]
  /\ UNCHANGED exceptGl

GlHeap == [ctors |-> gl.ctors, reentered |-> gl.reentered, calls |-> << >>, ret |-> 0]

GlInit ==
  /\ gl = [ctors |-> << GlVue >>, reentered |-> FALSE,
           installs |-> << [p \in Plugins |-> 0] >>]
  /\ lastGl = [op |-> "none", ctor |-> 0, arg |-> "none", calls |-> << >>, ret |-> 0]

\* Ctor.use(plugin)
GlUse ==
  \E c \in 1..Len(gl.ctors), plugin \in Plugins :
    GlCommit(use(GlHeap, c, plugin), "use", c, plugin)

GlNext == GlUse

InitGlobal == GlInit /\ EvIdle /\ ObIdle /\ RxIdle /\ MgIdle /\ InIdle /\ CpIdle /\ TvIdle /\ UlIdle

SpecGlobal == InitGlobal /\ [][GlNext]_vars

(***************************************************************************)
(* C13 - over any sequence of use calls on a constructor, a plugin's       *)
(* install (or the plugin function) has run at most once for that          *)
(* constructor, a use issued from inside the install included; every run   *)
(* receives the constructor as its first argument and use returns the      *)
(* constructor.                                                            *)
(***************************************************************************)
C13_UseIdempotent ==
  /\ \A c \in 1..Len(gl.ctors), p \in Plugins : gl.installs[c][p] <= 1
  /\ lastGl.op = "use" =>
       /\ lastGl.ret = lastGl.ctor
       /\ \A k \in 1..Len(lastGl.calls) : lastGl.calls[k].arg = lastGl.ctor

(***************************************************************************)
(* PART 5 - option merging (core/util/options.js): the strategies for      *)
(* lifecycle hooks, data and watch, and mergeOptions.                      *)
(*                                                                         *)
(* An option value is undefined, a function, an array of values, a         *)
(* primitive, or an object: a function from its enumerable keys to values. *)
(* A merge takes its two sides from the initial state and is applied once. *)
(***************************************************************************)

Undef == [t |-> "undef"]
Fn(f) == [t |-> "fn", f |-> f]
Arr(a) == [t |-> "arr", a |-> a]
Prim(v) == [t |-> "prim", v |-> v]
Obj(o) == [t |-> "obj", o |-> o]

\* the empty object
NoKeys == [k \in {} |-> Undef]

\* bound: the longest array of hooks or handlers on one side of a merge
MaxHooks == 2

\* the sequences over S of length at most n
SeqsUpTo(S, n) == UNION {[1..k -> S] : k \in 0..n}

\* the hook functions, and the hook lists of the two sides
HookFns == {Fn("h1"), Fn("h2")}
HookParents == {Undef} \cup {Arr(a) : a \in SeqsUpTo(HookFns, MaxHooks)}
HookChildren == HookParents \cup HookFns

\* Array.prototype.concat: an array argument is spread, any other is appended
concat(arr, v) == IF v.t = "arr" THEN Arr(arr.a \o v.a) ELSE Arr(Append(arr.a, v))

RECURSIVE dedupeHooks(_)

\* dedupeHooks: res.indexOf(hooks[i]) === -1 ? res.push(hooks[i])
dedupeHooks(hooks) ==
  IF hooks = << >> THEN << >>
  ELSE LET res == dedupeHooks(SubSeq(hooks, 1, Len(hooks) - 1))
           last == hooks[Len(hooks)]
       IN IF last \in Range(res) THEN res ELSE Append(res, last)

\* mergeHook without dedupeHooks
mergeHookConcat(parentVal, childVal) ==
  IF childVal # Undef
  THEN IF parentVal # Undef THEN concat(parentVal, childVal)
       ELSE IF childVal.t = "arr" THEN childVal ELSE Arr(<< childVal >>)
  ELSE parentVal

\* mergeHook, the strategy of every lifecycle hook
mergeHook(parentVal, childVal) ==
  LET res == IF childVal # Undef
             THEN IF parentVal # Undef THEN concat(parentVal, childVal)
                  ELSE IF childVal.t = "arr" THEN childVal ELSE Arr(<< childVal >>)
             ELSE parentVal
  IN IF res # Undef THEN Arr(dedupeHooks(res.a)) ELSE res

\* a data option: a factory function returning ret
DataFn(ret) == [t |-> "datafn", ret |-> ret]

\* the objects a data factory of one side returns: a and c hold a primitive,
\* b a primitive or an object with the keys x and y
SideData(v, w) ==
  LET nested == {Obj(n) : n \in UNION {[S -> {Prim(v)}] : S \in SUBSET {"x", "y"}}}
  IN {Obj(o) : o \in UNION {{f \in [S -> {Prim(v), Prim(w)} \cup nested] :
                                /\ "a" \in S => f["a"] = Prim(v)
                                /\ "b" \in S => f["b"] \in {Prim(v)} \cup nested
                                /\ "c" \in S => f["c"] = Prim(w)}
                             : S \in SUBSET {"a", "b", "c"}}}

\* a data option of one side: absent, a factory or, on an instance, an object
DataOptions(v, w) == {Undef} \cup SideData(v, w) \cup {DataFn(o) : o \in SideData(v, w)}

\* typeof val === 'function' ? val.call(vm, vm) : val
callData(val) == IF val.t = "datafn" THEN val.ret ELSE val

\* to with to[key] = val: set(to, key, val) on an object without observer
setKey(to, key, val) ==
  Obj([k \in DOMAIN to.o \cup {key} |-> IF k = key THEN val ELSE to.o[k]])

RECURSIVE mergeDataKeys(_, _, _)

\* mergeData that does not descend into nested objects
mergeDataShallow(to, from) ==
  IF from = Undef THEN to
  ELSE Obj([k \in DOMAIN to.o \cup DOMAIN from.o |->
              IF k \in DOMAIN to.o THEN to.o[k] ELSE from.o[k]])

\* mergeData(to, from); the two objects come from two factories and share
\* no nested object
mergeData(to, from) ==
  IF from = Undef THEN to ELSE mergeDataKeys(to, from, DOMAIN from.o)

\* the loop of mergeData over the keys of from that are left
mergeDataKeys(to, from, keys) ==
  IF keys = {} THEN to
  ELSE LET key == CHOOSE k \in keys : TRUE
           fromVal == from.o[key]
           next == IF key \notin DOMAIN to.o THEN setKey(to, key, fromVal)
                   ELSE IF to.o[key].t = "obj" /\ fromVal.t = "obj"
                   THEN setKey(to, key, mergeData(to.o[key], fromVal))
                   ELSE to
       IN mergeDataKeys(next, from, keys \ {key})

\* mergeDataOrFn; the function it returns is written as a factory with the
\* value it returns when invoked
mergeDataOrFn(parentVal, childVal, hasVm) ==
  IF ~hasVm
  THEN IF childVal = Undef THEN parentVal
       ELSE IF parentVal = Undef THEN childVal
       ELSE DataFn(mergeData(callData(childVal), callData(parentVal)))
  ELSE DataFn(IF callData(childVal) # Undef
              THEN mergeData(callData(childVal), callData(parentVal))
              ELSE callData(parentVal))

\* strats.data
stratsData(parentVal, childVal, hasVm) ==
  IF ~hasVm /\ childVal # Undef /\ childVal.t # "datafn" THEN parentVal
  ELSE mergeDataOrFn(parentVal, childVal, hasVm)

\* Object.create(proto || null): an object that reads, and enumerates with
\* for-in, the keys of proto
create(proto) == IF proto = Undef THEN Obj(NoKeys) ELSE Obj(proto.o)

\* the entries of one watched key: a handler or an array of handlers
WatchEntries == HookFns \cup {Arr(a) : a \in SeqsUpTo(HookFns, MaxHooks) \ {<< >>}}

\* the watch records of one side, over the watched keys a and b
WatchRecords ==
  {Undef} \cup {Obj(o) : o \in UNION {[S -> WatchEntries] : S \in SUBSET {"a", "b"}}}

\* strats.watch where the child's entry replaces the parent's
stratsWatchOverride(parentVal, childVal) ==
  IF childVal = Undef THEN create(parentVal)
  ELSE IF parentVal = Undef THEN childVal
  ELSE Obj([key \in DOMAIN parentVal.o \cup DOMAIN childVal.o |->
              IF key \in DOMAIN childVal.o THEN childVal.o[key] ELSE parentVal.o[key]])

\* strats.watch
stratsWatch(parentVal, childVal) ==
  IF childVal = Undef THEN create(parentVal)
  ELSE IF parentVal = Undef THEN childVal
  ELSE Obj([key \in DOMAIN parentVal.o \cup DOMAIN childVal.o |->
              IF key \notin DOMAIN childVal.o THEN parentVal.o[key]
              ELSE LET child == childVal.o[key]
                       parent == IF key \notin DOMAIN parentVal.o THEN Undef
                                 ELSE IF parentVal.o[key].t = "arr" THEN parentVal.o[key]
                                 ELSE Arr(<< parentVal.o[key] >>)
                   IN IF parent # Undef THEN concat(parent, child)
                      ELSE IF child.t = "arr" THEN child ELSE Arr(<< child >>)])

\* extend(to, _from) on two objects: the keys of _from are copied over to
extendObj(to, from) ==
  Obj([k \in DOMAIN to.o \cup DOMAIN from.o |->
         IF k \in DOMAIN from.o THEN from.o[k] ELSE to.o[k]])

\* mergeAssets
mergeAssets(parentVal, childVal) ==
  IF childVal # Undef THEN extendObj(create(parentVal), childVal) ELSE create(parentVal)

\* strats.props = strats.methods = strats.inject = strats.computed
stratsProps(parentVal, childVal) ==
  IF parentVal = Undef THEN childVal
  ELSE IF childVal # Undef THEN extendObj(extendObj(Obj(NoKeys), parentVal), childVal)
  ELSE extendObj(Obj(NoKeys), parentVal)

\* defaultStrat
defaultStrat(parentVal, childVal) == IF childVal = Undef THEN parentVal ELSE childVal

\* camelize, on names with at most one hyphen
camelize(str) == IF str = "my-p" THEN "myP" ELSE str

\* options[key], undefined when the options have no such key
optionOf(options, key) == IF key \in DOMAIN options.o THEN options.o[key] ELSE Undef

\* normalizeProps: options with options.props in the object form
normalizeProps(options) ==
  LET props == optionOf(options, "props")
      Names == IF props.t = "arr" THEN {props.a[i] : i \in DOMAIN props.a} ELSE DOMAIN props.o
      res == [name \in {camelize(n) : n \in Names} |->
                IF props.t = "arr" THEN Obj([type |-> Prim("null")])
                ELSE LET key == CHOOSE n \in Names : camelize(n) = name
                         val == props.o[key]
                     IN IF val.t = "obj" THEN val ELSE Obj([type |-> val])]
  IN IF props = Undef THEN options ELSE setKey(options, "props", Obj(res))

\* normalizeInject: options with options.inject in the object form
normalizeInject(options) ==
  LET inject == optionOf(options, "inject")
      Names == IF inject.t = "arr" THEN {inject.a[i] : i \in DOMAIN inject.a}
               ELSE DOMAIN inject.o
      normalized == [key \in Names |->
                       IF inject.t = "arr" THEN Obj([from |-> Prim(key)])
                       ELSE LET val == inject.o[key]
                            IN IF val.t = "obj" THEN extendObj(Obj([from |-> Prim(key)]), val)
                               ELSE Obj([from |-> val])]
  IN IF inject = Undef THEN options ELSE setKey(options, "inject", Obj(normalized))

\* normalizeDirectives: a function directive becomes { bind, update }
normalizeDirectives(options) ==
  LET dirs == optionOf(options, "directives")
  IN IF dirs = Undef THEN options
     ELSE setKey(options, "directives",
                 Obj([key \in DOMAIN dirs.o |->
                        IF dirs.o[key].t = "fn"
                        THEN Obj([bind |-> dirs.o[key], update |-> dirs.o[key]])
                        ELSE dirs.o[key]]))

\* mergeField: the strategy of key applied to the two values
mergeField(key, parentVal, childVal, hasVm) ==
  IF key \in {"beforeCreate", "created", "mounted"} THEN mergeHook(parentVal, childVal)
  ELSE IF key \in {"components", "directives", "filters"} THEN mergeAssets(parentVal, childVal)
  ELSE IF key = "watch" THEN stratsWatch(parentVal, childVal)
  ELSE IF key \in {"props", "methods", "inject", "computed"} THEN stratsProps(parentVal, childVal)
  ELSE IF key = "data" THEN stratsData(parentVal, childVal, hasVm)
  ELSE IF key = "provide" THEN mergeDataOrFn(parentVal, childVal, hasVm)
  ELSE defaultStrat(parentVal, childVal)

RECURSIVE mergeOptions(_, _, _)
RECURSIVE mergeMixins(_, _, _, _)

\* the loop of mergeOptions over child.mixins from position i on: the parent
\* after the mixins are merged into it, and the mixins as normalized in place
mergeMixins(parent, mixins, i, hasVm) ==
  IF i > Len(mixins) THEN [parent |-> parent, mixins |-> mixins]
  ELSE LET m == mergeOptions(parent, mixins[i], hasVm)
       IN mergeMixins(m.options, [mixins EXCEPT ![i] = m.child], i + 1, hasVm)

\* mergeOptions(parent, child, vm): the merged options, and child as the call
\* leaves it, normalized in place
mergeOptions(parent, child, hasVm) ==
  LET norm == normalizeDirectives(normalizeInject(normalizeProps(child)))
      raw == "_base" \notin DOMAIN norm.o
      ext == IF raw /\ "extends" \in DOMAIN norm.o
             THEN mergeMixins(parent, << norm.o["extends"] >>, 1, hasVm)
             ELSE [parent |-> parent, mixins |-> << >>]
      mix == IF raw /\ "mixins" \in DOMAIN norm.o
             THEN mergeMixins(ext.parent, norm.o["mixins"].a, 1, hasVm)
             ELSE [parent |-> ext.parent, mixins |-> << >>]
      c1 == IF raw /\ "extends" \in DOMAIN norm.o
            THEN setKey(norm, "extends", ext.mixins[1]) ELSE norm
      c2 == IF raw /\ "mixins" \in DOMAIN norm.o
            THEN setKey(c1, "mixins", Arr(mix.mixins)) ELSE c1
  IN [options |-> Obj([key \in DOMAIN mix.parent.o \cup DOMAIN c2.o |->
                         mergeField(key, optionOf(mix.parent, key), optionOf(c2, key), hasVm)]),
      child |-> c2]

\* an options object literal: the keys of f that are given a value
literal(f) == Obj([k \in {x \in DOMAIN f : f[x] # Undef} |-> f[k]])

\* the parent of a merge: options that came out of mergeOptions, so with
\* _base and in the normalized form, with or without each group of keys
ParentOptions ==
  {literal([_base |-> Prim("Vue"),
            created |-> IF hw THEN Arr(<< Fn("h1") >>) ELSE Undef,
            watch |-> IF hw THEN Obj([a |-> Fn("h1")]) ELSE Undef,
            props |-> IF pi THEN Obj([p |-> Obj([type |-> Prim("String")])]) ELSE Undef,
            inject |-> IF pi THEN Obj([foo |-> Obj([from |-> Prim("foo")])]) ELSE Undef,
            methods |-> IF mc THEN Obj([m |-> Fn("h1")]) ELSE Undef,
            computed |-> IF mc THEN Obj([c |-> Fn("h1")]) ELSE Undef,
            components |-> IF mc THEN Obj([X |-> Prim("k1")]) ELSE Undef]) :
     hw \in BOOLEAN, pi \in BOOLEAN, mc \in BOOLEAN}

\* the child of a merge: options as a user writes them
ChildOptions ==
  {literal([created |-> created, watch |-> watch, props |-> props, inject |-> inject,
            methods |-> methods, computed |-> computed, components |-> components,
            directives |-> directives, mixins |-> mixins]) :
     created \in {Undef, Fn("h2"), Arr(<< Fn("h1"), Fn("h2") >>)},
     watch \in {Undef, Obj([a |-> Fn("h2")])},
     props \in {Undef, Arr(<< "my-p" >>), Obj([p |-> Prim("Number")])},
     inject \in {Undef, Arr(<< "foo" >>), Obj([foo |-> Prim("bar")])},
     methods \in {Undef, Obj([m |-> Fn("h2")])},
     computed \in {Undef, Obj([c |-> Fn("h2")])},
     components \in {Undef, Obj([Y |-> Prim("k2")])},
     directives \in {Undef, Obj([d |-> Fn("h2")])},
     mixins \in {Undef, Arr(<< Obj([created |-> Fn("h1"), props |-> Arr(<< "q" >>)]) >>)}}

MgInitOptions ==
  \E parent \in ParentOptions, child \in ChildOptions :
    mg = [kind |-> "options", parent |-> parent, child |-> child, vm |-> FALSE,
          done |-> FALSE, out |-> Undef, pass |-> 0]

MgInitWatch ==
  \E parentVal \in WatchRecords, childVal \in WatchRecords :
    mg = [kind |-> "watch", parent |-> parentVal, child |-> childVal, vm |-> FALSE,
          done |-> FALSE, out |-> Undef]

MgInitData ==
  \E parentVal \in DataOptions("1", "1"), childVal \in DataOptions("2", "3"), hasVm \in BOOLEAN :
    mg = [kind |-> "data", parent |-> parentVal, child |-> childVal, vm |-> hasVm,
          done |-> FALSE, out |-> Undef]

MgInitHook ==
  \E parentVal \in HookParents, childVal \in HookChildren :
    mg = [kind |-> "hook", parent |-> parentVal, child |-> childVal, vm |-> FALSE,
          done |-> FALSE, out |-> Undef]

MgInit == MgInitHook \/ MgInitData \/ MgInitWatch \/ MgInitOptions

\* strats[hook](parentVal, childVal)
MgMergeHook ==
  /\ mg.kind = "hook" /\ ~mg.done
  /\ mg' = [mg EXCEPT !.done = TRUE, !.out = mergeHook(mg.parent, mg.child)]
  /\ UNCHANGED exceptMg

\* strats.data(parentVal, childVal, vm)
MgMergeData ==
  /\ mg.kind = "data" /\ ~mg.done
  /\ mg' = [mg EXCEPT !.done = TRUE, !.out = stratsData(mg.parent, mg.child, mg.vm)]
  /\ UNCHANGED exceptMg

\* strats.watch(parentVal, childVal)
MgMergeWatch ==
  /\ mg.kind = "watch" /\ ~mg.done
  /\ mg' = [mg EXCEPT !.done = TRUE, !.out = stratsWatch(mg.parent, mg.child)]
  /\ UNCHANGED exceptMg

\* mergeOptions(parent, child)
MgMergeOptions ==
  /\ mg.kind = "options" /\ ~mg.done
  /\ LET m == mergeOptions(mg.parent, mg.child, mg.vm)
     IN mg' = [mg EXCEPT !.done = TRUE, !.out = m.options, !.child = m.child, !.pass = 1]
  /\ UNCHANGED exceptMg

\* mergeOptions(merged, child): the same child merged into the result
MgMergeAgain ==
  /\ mg.kind = "options" /\ mg.done /\ mg.pass = 1
  /\ LET m == mergeOptions(mg.out, mg.child, mg.vm)
     IN mg' = [mg EXCEPT !.parent = mg.out, !.out = m.options, !.child = m.child, !.pass = 2]
  /\ UNCHANGED exceptMg

MgNext == MgMergeHook \/ MgMergeData \/ MgMergeWatch \/ MgMergeOptions \/ MgMergeAgain

InitMerge == MgInit /\ EvIdle /\ ObIdle /\ RxIdle /\ GlIdle /\ InIdle /\ CpIdle /\ TvIdle /\ UlIdle

SpecMerge == InitMerge /\ [][MgNext]_vars

\* the elements of an optional array, and of a function or array
ListOf(v) == IF v = Undef THEN << >> ELSE IF v.t = "arr" THEN v.a ELSE << v >>

(***************************************************************************)
(* C17 - the merged hook list holds every function of the parent's list    *)
(* and of the child's hook or hooks exactly once, in the order of their    *)
(* first occurrence in the parent's list followed by the child's; a single *)
(* child function counts as a list of one, and with neither a parent nor a *)
(* child the result is undefined.                                          *)
(***************************************************************************)
C17_MergeHook ==
  mg.kind = "hook" /\ mg.done =>
    LET all == ListOf(mg.parent) \o ListOf(mg.child)
        First(f) == CHOOSE i \in 1..Len(all) : all[i] = f /\ \A j \in 1..(i - 1) : all[j] # f
    IN IF mg.parent = Undef /\ mg.child = Undef THEN mg.out = Undef
       ELSE /\ mg.out.t = "arr"
            /\ Range(mg.out.a) = Range(all)
            /\ \A i, j \in 1..Len(mg.out.a) :
                 i < j => First(mg.out.a[i]) < First(mg.out.a[j])

\* a parent list and a child function that the parent already holds
C17_Witness ==
  /\ mg.kind = "hook" /\ mg.done
  /\ mg.parent = Arr(<< Fn("h1"), Fn("h2") >>)
  /\ mg.child = Fn("h1")
  /\ mg.out = Arr(<< Fn("h1"), Fn("h2") >>)

(***************************************************************************)
(* C18 - merging data with an instance present gives a function that       *)
(* returns the deep merge of the child factory's result over the parent    *)
(* factory's: the keys of both, a key of the child with the child's value, *)
(* a key only in the parent with the parent's value, and where both values *)
(* are objects the same rule for their keys.  Without a child result it    *)
(* returns the parent's result.                                            *)
(***************************************************************************)
C18_MergeDataDeep ==
  mg.kind = "data" /\ mg.done /\ mg.vm =>
    LET c == callData(mg.child)
        p == callData(mg.parent)
        Over(x, y) == \* x over y, for two values of one key
          IF x.t = "obj" /\ y.t = "obj"
          THEN Obj([k \in DOMAIN x.o \cup DOMAIN y.o |->
                      IF k \in DOMAIN x.o THEN x.o[k] ELSE y.o[k]])
          ELSE x
    IN /\ mg.out.t = "datafn"
       /\ mg.out.ret =
            IF c = Undef THEN p
            ELSE IF p = Undef THEN c
            ELSE Obj([k \in DOMAIN c.o \cup DOMAIN p.o |->
                        IF k \notin DOMAIN c.o THEN p.o[k]
                        ELSE IF k \notin DOMAIN p.o THEN c.o[k]
                        ELSE Over(c.o[k], p.o[k])])

\* Scenario C
C18_Witness ==
  /\ mg.kind = "data" /\ mg.done /\ mg.vm
  /\ mg.parent = DataFn(Obj([a |-> Prim("1"), b |-> Obj([x |-> Prim("1")])]))
  /\ mg.child = DataFn(Obj([b |-> Obj([y |-> Prim("2")]), c |-> Prim("3")]))
  /\ mg.out = DataFn(Obj([a |-> Prim("1"),
                          b |-> Obj([x |-> Prim("1"), y |-> Prim("2")]),
                          c |-> Prim("3")]))

(***************************************************************************)
(* PART 6 - the constructors: Vue.extend, Vue.mixin,                       *)
(* resolveConstructorOptions and Vue.prototype._init.                      *)
(*                                                                         *)
(* gl.ctors is the list of the constructors in the order of their          *)
(* creation, Vue first; a constructor is named by its position.  An        *)
(* options object is a record of its identity and its content, and the     *)
(* n-th object that becomes the options of the constructor c has the       *)
(* identity << c, n >>; the objects a user hands to extend are held in     *)
(* gl.objs with their _Ctor cache.  The                                    *)
(* options hold lifecycle hooks and assets, whose strategies build a new   *)
(* value at every merge, and _base, which is carried over as it is.  No    *)
(* options object has a name, and no object is used both as a mixin and as *)
(* the options of extend.                                                  *)
(***************************************************************************)

\* bounds: the constructors, Vue included, and the calls of mixin
MaxCtors == 3
MaxMixins == 2

\* the objects handed to extend, and their content when first handed over
UserObjs == {"o1", "o2"}
UserContent(ext) ==
  IF ext = "o1" THEN Obj([created |-> Fn("h1")]) ELSE Obj([created |-> Arr(<< Fn("h2") >>)])

\* the object handed to mixin
MixinContent == Obj([created |-> Fn("hm")])

\* Vue.options as initGlobalAPI leaves it
VueOptions ==
  Obj([components |-> Obj(NoKeys), directives |-> Obj(NoKeys), filters |-> Obj(NoKeys),
       _base |-> Prim("Vue")])

\* the lifecycle hooks of an options object, as a list
HooksOf(options, hook) == ListOf(optionOf(options, hook))

\* resolveModifiedOptions: the keys of Ctor.options whose value is not the
\* one sealed; a value built by a merge after the sealing is never the sealed
\* one, _base always is
resolveModifiedOptions(Ctor) ==
  LET latest == Ctor.options
      sealed == Ctor.sealedOptions
      Modified == {key \in DOMAIN latest.o.o :
                 IF key = "_base" THEN optionOf(latest.o, key) # optionOf(sealed.o, key)
                 ELSE latest.id # sealed.id}
  IN IF Modified = {} THEN Undef ELSE Obj([key \in Modified |-> latest.o.o[key]])

\* Ctor.extendOptions after extend(Ctor.extendOptions, modifiedOptions)
extendedOptions(g1, c) ==
  LET Ctor == g1.ctors[c]
      modifiedOptions == resolveModifiedOptions(Ctor)
  IN IF modifiedOptions # Undef
     THEN extendObj(g1.objs[Ctor.extendOptions].o, modifiedOptions)
     ELSE g1.objs[Ctor.extendOptions].o

\* the assignments of resolveConstructorOptions without Ctor.superOptions
assignOptionsStale(g1, c, m) ==
  LET options == [id |-> << c, g1.ctors[c].options.id[2] + 1 >>, o |-> m.options]
  IN [g1 EXCEPT !.ctors[c].options = options,
                !.objs[g1.ctors[c].extendOptions].o = m.child,
                !.merges = Append(@, c), !.ret = options]

\* Ctor.superOptions = superOptions and options = Ctor.options = m.options,
\* for the result m of mergeOptions(superOptions, Ctor.extendOptions)
assignOptions(g1, c, m) ==
  LET options == [id |-> << c, g1.ctors[c].options.id[2] + 1 >>, o |-> m.options]
  IN [g1 EXCEPT !.ctors[c].superOptions = g1.ret.id,
                !.ctors[c].options = options,
                !.objs[g1.ctors[c].extendOptions].o = m.child,
                !.merges = Append(@, c), !.ret = options]

\* resolveConstructorOptions(Ctor) for the subclass c, from the point where
\* resolveConstructorOptions(Ctor.super) has returned g1.ret
resolveOptions(g1, c) ==
  IF g1.ret.id # g1.ctors[c].superOptions
  THEN assignOptions(g1, c, mergeOptions(g1.ret.o, extendedOptions(g1, c), FALSE))
  ELSE [g1 EXCEPT !.ret = g1.ctors[c].options]

RECURSIVE resolveConstructorOptions(_, _)

\* resolveConstructorOptions(Ctor) for the constructor c
resolveConstructorOptions(g, c) ==
  IF g.ctors[c].super = 0 THEN [g EXCEPT !.ret = g.ctors[c].options]
  ELSE resolveOptions(resolveConstructorOptions(g, g.ctors[c].super), c)

\* the subclass Sub of the constructor s over the object ext, with the result
\* m of mergeOptions(Super.options, extendOptions) as its options
subOf(g, s, ext, m) ==
  LET options == [id |-> << Len(g.ctors) + 1, 1 >>, o |-> m.options]
      Sub == [cid |-> g.cid, super |-> s, options |-> options,
              superOptions |-> g.ctors[s].options.id, extendOptions |-> ext,
              sealedOptions |-> options]
  IN [g EXCEPT !.ctors = Append(@, Sub), !.cid = @ + 1,
               !.objs[ext].o = m.child, !.ret = Len(g.ctors) + 1]

\* Vue.extend past the cache: the subclass is made
newSub(g, s, ext) ==
  subOf(g, s, ext, mergeOptions(g.ctors[s].options.o, g.objs[ext].o, FALSE))

\* cachedCtors[SuperId] = Sub, for the subclass g1.ret
cacheSub(g1, ext, Ids, SuperId) ==
  [g1 EXCEPT !.objs[ext].ctor =
     [id \in Ids |-> IF id = SuperId THEN g1.ret ELSE g1.objs[ext].ctor[id]]]

\* Vue.extend with one cache per options object, whatever the super constructor
VueExtendSharedCache(g, s, ext) ==
  IF DOMAIN g.objs[ext].ctor # {}
  THEN [g EXCEPT !.ret = g.objs[ext].ctor[CHOOSE id \in DOMAIN g.objs[ext].ctor : TRUE]]
  ELSE cacheSub(newSub(g, s, ext), ext, {g.ctors[s].cid}, g.ctors[s].cid)

\* Vue.extend(extendOptions) with this = the constructor s
VueExtend(g, s, ext) ==
  IF g.ctors[s].cid \in DOMAIN g.objs[ext].ctor
  THEN [g EXCEPT !.ret = g.objs[ext].ctor[g.ctors[s].cid]]
  ELSE cacheSub(newSub(g, s, ext), ext,
                DOMAIN g.objs[ext].ctor \cup {g.ctors[s].cid}, g.ctors[s].cid)

\* Class.options = m.options, for the result m of mergeOptions(Class.options, mixin)
mixed(g, c, m) ==
  [g EXCEPT !.ctors[c].options = [id |-> << c, g.ctors[c].options.id[2] + 1 >>,
                                  o |-> m.options],
            !.mixins = @ + 1, !.ret = c]

\* Vue.mixin(mixin) with this = the constructor c
mixin(g, c, content) == mixed(g, c, mergeOptions(g.ctors[c].options.o, content, FALSE))

\* the options handed to new: with or without each group of options
InstanceOptions ==
  {literal([inject |-> IF ip THEN Arr(<< "foo" >>) ELSE Undef,
            provide |-> IF ip THEN Obj([bar |-> Prim("1")]) ELSE Undef,
            props |-> IF pd THEN Arr(<< "p" >>) ELSE Undef,
            data |-> IF pd THEN DataFn(Obj([a |-> Prim("1")])) ELSE Undef,
            methods |-> IF mcw THEN Obj([m |-> Fn("h1")]) ELSE Undef,
            computed |-> IF mcw THEN Obj([c |-> Fn("h1")]) ELSE Undef,
            watch |-> IF mcw THEN Obj([a |-> Fn("h1")]) ELSE Undef,
            el |-> IF el THEN Prim("#app") ELSE Undef]) :
     ip \in BOOLEAN, pd \in BOOLEAN, mcw \in BOOLEAN, el \in BOOLEAN}

\* one step of _init, and the parts of the instance it sets up
step(name, parts) == << [name |-> name, parts |-> parts] >>

\* the step that runs when the option is given
stepIf(opts, key, name, parts) ==
  IF optionOf(opts, key) # Undef THEN step(name, parts) ELSE << >>

\* initState: the options are set up in this order, each if it is given
initStateOrder(opts) ==
  stepIf(opts, "props", "initProps", {"props"})
  \o stepIf(opts, "methods", "initMethods", {"methods"})
  \o (IF optionOf(opts, "data") # Undef THEN step("initData", {"data"})
      ELSE step("observe", {"data"}))
  \o stepIf(opts, "computed", "initComputed", {"computed"})
  \o stepIf(opts, "watch", "initWatch", {"watch"})

\* the steps of _init with initInjections after initState
initStepsLateInject(opts) ==
  step("mergeOptions", {"$options"}) \o step("initLifecycle", {"lifecycle"})
  \o step("initEvents", {"events"}) \o step("initRender", {"render"})
  \o step("beforeCreate", {})
  \o initStateOrder(opts)
  \o step("initInjections", IF optionOf(opts, "inject") # Undef THEN {"inject"} ELSE {})
  \o step("initProvide", IF optionOf(opts, "provide") # Undef THEN {"provided"} ELSE {})
  \o step("created", {})
  \o stepIf(opts, "el", "$mount", {"$el"})

\* the steps of _init over the merged options opts
initSteps(opts) ==
  step("mergeOptions", {"$options"}) \o step("initLifecycle", {"lifecycle"})
  \o step("initEvents", {"events"}) \o step("initRender", {"render"})
  \o step("beforeCreate", {})
  \o step("initInjections", IF optionOf(opts, "inject") # Undef THEN {"inject"} ELSE {})
  \o initStateOrder(opts)
  \o step("initProvide", IF optionOf(opts, "provide") # Undef THEN {"provided"} ELSE {})
  \o step("created", {})
  \o stepIf(opts, "el", "$mount", {"$el"})

\* the steps with what the instance holds when each of them starts
seenBefore(steps) ==
  [i \in DOMAIN steps |->
     [name |-> steps[i].name, seen |-> UNION {steps[j].parts : j \in 1..(i - 1)}]]

\* _init from initLifecycle on, over the merged options opts
initialised(g1, c, opts) ==
  [g1 EXCEPT !.trace = seenBefore(initSteps(opts)), !.opts = opts, !.ret = c]

\* _init from the point where resolveConstructorOptions(vm.constructor) has
\* returned g1.ret
initResolved(g1, c, options) ==
  initialised(g1, c, mergeOptions(g1.ret.o, options, TRUE).options)

\* Vue.prototype._init(options) of a new instance of the constructor c
vmInit(g, c, options) == initResolved(resolveConstructorOptions(g, c), c, options)

\* the end of an operation: the heap g becomes the state
ExCommit(g, op, c, arg) ==
  /\ gl' = [ctors |-> g.ctors, objs |-> g.objs, cid |-> g.cid, mixins |-> g.mixins]
  /\ lastGl' = [op |-> op, ctor |-> c, arg |-> arg, ret |-> g.ret, merges |-> g.merges,
                ctorsBefore |-> Len(gl.ctors), cidBefore |-> gl.cid,
                trace |-> g.trace, opts |-> g.opts]
  /\ UNCHANGED exceptGl

ExHeap ==
  [ctors |-> gl.ctors, objs |-> gl.objs, cid |-> gl.cid,
   mixins |-> gl.mixins, merges |-> << >>, ret |-> 0, trace |-> << >>, opts |-> Undef]

\* after initGlobalAPI: Vue alone, with cid 0, and the next cid 1
ExInit ==
  /\ gl = [ctors |-> << [cid |-> 0, super |-> 0,
                         options |-> [id |-> << 1, 1 >>, o |-> VueOptions],
                         superOptions |-> << 0, 0 >>, extendOptions |-> "none",
                         sealedOptions |-> [id |-> << 0, 0 >>, o |-> Obj(NoKeys)]] >>,
           objs |-> [ext \in UserObjs |-> [o |-> UserContent(ext), ctor |-> [id \in {} |-> 0]]],
           cid |-> 1, mixins |-> 0]
  /\ lastGl = [op |-> "none", ctor |-> 0, arg |-> "none", ret |-> 0, merges |-> << >>,
               ctorsBefore |-> 1, cidBefore |-> 1, trace |-> << >>, opts |-> Undef]

\* Super.extend(extendOptions)
ExExtend ==
  \E s \in 1..Len(gl.ctors), ext \in UserObjs :
    /\ gl.ctors[s].cid \in DOMAIN gl.objs[ext].ctor \/ Len(gl.ctors) < MaxCtors
    /\ ExCommit(VueExtend(ExHeap, s, ext), "extend", s, ext)

\* Ctor.mixin(mixin)
ExMixin ==
  \E c \in 1..Len(gl.ctors) :
    /\ gl.mixins < MaxMixins
    /\ ExCommit(mixin(ExHeap, c, MixinContent), "mixin", c, "m")

\* resolveConstructorOptions(Ctor)
ExResolve ==
  \E c \in 1..Len(gl.ctors) :
    ExCommit(resolveConstructorOptions(ExHeap, c), "resolve", c, "none")

\* new Ctor(options)
ExNew ==
  \E c \in 1..Len(gl.ctors), options \in InstanceOptions :
    ExCommit(vmInit(ExHeap, c, options), "new", c, "options")

ExNext == ExExtend \/ ExMixin \/ ExResolve

InitExtend == ExInit /\ EvIdle /\ ObIdle /\ RxIdle /\ MgIdle /\ InIdle /\ CpIdle /\ TvIdle /\ UlIdle

SpecExtend == InitExtend /\ [][ExNext]_vars

\* the constructors are made and instantiated
NewNext == ExExtend \/ ExNew

SpecInit == InitExtend /\ [][NewNext]_vars

(***************************************************************************)
(* C14 - no two constructors have the same cid, and no two are subclasses  *)
(* of the same super constructor over the same options object; extend      *)
(* returns a subclass of the constructor it is called on over the object   *)
(* it is given, and when it returns one made before, no constructor is     *)
(* made and no cid is used up.                                             *)
(***************************************************************************)
C14_ExtendCache ==
  /\ \A i, j \in 1..Len(gl.ctors) :
       i # j => /\ gl.ctors[i].cid # gl.ctors[j].cid
                /\ gl.ctors[i].super # 0 =>
                     << gl.ctors[i].super, gl.ctors[i].extendOptions >> #
                     << gl.ctors[j].super, gl.ctors[j].extendOptions >>
  /\ lastGl.op = "extend" =>
       /\ gl.ctors[lastGl.ret].super = lastGl.ctor
       /\ gl.ctors[lastGl.ret].extendOptions = lastGl.arg
       /\ lastGl.ret <= lastGl.ctorsBefore =>
            Len(gl.ctors) = lastGl.ctorsBefore /\ gl.cid = lastGl.cidBefore

\* Vue and its subclass have both extended one object, and Vue.extend is
\* called with that object again
C14_Witness ==
  /\ Len(gl.ctors) = 3
  /\ gl.ctors[2].super = 1 /\ gl.ctors[3].super = 2
  /\ gl.ctors[2].extendOptions = gl.ctors[3].extendOptions
  /\ lastGl.op = "extend" /\ lastGl.ctor = 1 /\ lastGl.ret = 2 /\ lastGl.ctorsBefore = 3

(***************************************************************************)
(* C15 - after resolveConstructorOptions(Sub), for Sub and every subclass  *)
(* above it in its chain: superOptions is the current options object of    *)
(* its super constructor, and the options hold every created hook of the   *)
(* super constructor's options, a mixin's included.  The call returns      *)
(* Sub.options, which, where they were merged again, are the merge of the  *)
(* super constructor's current options with Sub.extendOptions; a further   *)
(* call returns that same object and merges nothing.                       *)
(***************************************************************************)
C15_ResolveRemerges ==
  lastGl.op = "resolve" =>
    LET chain[k \in 0..Len(gl.ctors)] ==
          IF k = 0 \/ gl.ctors[k].super = 0 THEN {} ELSE {k} \cup chain[gl.ctors[k].super]
        again == resolveConstructorOptions(ExHeap, lastGl.ctor)
    IN /\ lastGl.ret = gl.ctors[lastGl.ctor].options
       /\ \A k \in chain[lastGl.ctor] :
            LET Sub == gl.ctors[k]
                Super == gl.ctors[Sub.super]
            IN /\ Sub.superOptions = Super.options.id
               /\ k = lastGl.ctor /\ k \in Range(lastGl.merges) =>
                    Sub.options.o =
                      mergeOptions(Super.options.o, gl.objs[Sub.extendOptions].o, FALSE).options
               /\ Range(HooksOf(Super.options.o, "created")) \subseteq
                    Range(HooksOf(Sub.options.o, "created"))
       /\ again.ret = lastGl.ret
       /\ again.merges = << >>
       /\ again.ctors = gl.ctors /\ again.objs = gl.objs

\* a subclass of a subclass is resolved after a mixin on Vue: both are merged
\* again and hold the hook of the mixin
C15_Witness ==
  /\ lastGl.op = "resolve" /\ lastGl.ctor = 3
  /\ gl.ctors[3].super = 2 /\ gl.ctors[2].super = 1
  /\ lastGl.merges = << 2, 3 >>
  /\ Fn("hm") \in Range(HooksOf(gl.ctors[1].options.o, "created"))
  /\ Fn("hm") \in Range(HooksOf(lastGl.ret.o, "created"))

(***************************************************************************)
(* C16 - the steps of _init run in the order: options merged, lifecycle,   *)
(* events, render, beforeCreate, inject, props, methods, data, computed,   *)
(* watch, provide, created, and $mount only with el and last.  So          *)
(* beforeCreate sees no state, props and data are set up with the injected *)
(* values in place, provide runs with data and props in place, and created *)
(* sees all of the state and no element.                                   *)
(***************************************************************************)
C16_InitOrder ==
  lastGl.op = "new" =>
    LET trace == lastGl.trace
        given(key) == optionOf(lastGl.opts, key) # Undef
        State == {"inject", "props", "methods", "data", "computed", "watch", "provided"}
        Given == {"data"} \cup {key \in {"inject", "props", "methods", "computed", "watch"} :
                                  given(key)}
                          \cup (IF given("provide") THEN {"provided"} ELSE {})
        Order == << "mergeOptions", "initLifecycle", "initEvents", "initRender",
                    "beforeCreate", "initInjections", "initProps", "initMethods",
                    "initData", "observe", "initComputed", "initWatch", "initProvide",
                    "created", "$mount" >>
        runs(name) == CASE name = "initProps" -> given("props")
                        [] name = "initMethods" -> given("methods")
                        [] name = "initData" -> given("data")
                        [] name = "observe" -> ~given("data")
                        [] name = "initComputed" -> given("computed")
                        [] name = "initWatch" -> given("watch")
                        [] name = "$mount" -> given("el")
                        [] OTHER -> TRUE
    IN /\ [i \in DOMAIN trace |-> trace[i].name] = SelectSeq(Order, runs)
       /\ \A i \in DOMAIN trace :
            /\ trace[i].name = "beforeCreate" => trace[i].seen \cap State = {}
            /\ trace[i].name \in {"initProps", "initData"} /\ given("inject") =>
                 "inject" \in trace[i].seen
            /\ trace[i].name = "initProvide" =>
                 "data" \in trace[i].seen /\ (given("props") => "props" \in trace[i].seen)
            /\ trace[i].name = "created" =>
                 trace[i].seen \cap State = Given /\ "$el" \notin trace[i].seen

\* an instance of a subclass with every option given
C16_Witness ==
  /\ lastGl.op = "new" /\ lastGl.ctor = 2
  /\ Len(lastGl.trace) = 14
  /\ lastGl.trace[14].name = "$mount"
  /\ Fn("h1") \in Range(HooksOf(lastGl.opts, "created"))

\* the entries of key in a watch record, as a list
EntriesOf(rec, key) ==
  IF rec = Undef \/ key \notin DOMAIN rec.o THEN << >> ELSE ListOf(rec.o[key])

\* the keys of a watch record
KeysOf(rec) == IF rec = Undef THEN {} ELSE DOMAIN rec.o

(***************************************************************************)
(* C20 - as stated: every key of the merged watch record is an array       *)
(* holding the parent's entries followed by the child's entries, whether   *)
(* or not a parent watch record exists.                                    *)
(***************************************************************************)
C20_EveryKeyArray ==
  mg.kind = "watch" /\ mg.done =>
    /\ KeysOf(mg.out) = KeysOf(mg.parent) \cup KeysOf(mg.child)
    /\ \A key \in KeysOf(mg.out) :
         mg.out.o[key] = Arr(EntriesOf(mg.parent, key) \o EntriesOf(mg.child, key))

(***************************************************************************)
(* C20 - amended: the merged watch record has the keys of both records and *)
(* under every key the parent's entries followed by the child's entries,   *)
(* so no parent handler is overwritten; the entry is an array for every    *)
(* key of the child when a parent record exists, while a key only the      *)
(* parent has keeps the parent's entry as given, and without a parent      *)
(* record or without a child record every entry is kept as given.          *)
(***************************************************************************)
C20_WatchMerged ==
  mg.kind = "watch" /\ mg.done =>
    /\ mg.out.t = "obj"
    /\ KeysOf(mg.out) = KeysOf(mg.parent) \cup KeysOf(mg.child)
    /\ \A key \in KeysOf(mg.out) :
         /\ EntriesOf(mg.out, key) = EntriesOf(mg.parent, key) \o EntriesOf(mg.child, key)
         /\ IF mg.parent # Undef /\ key \in KeysOf(mg.child)
            THEN mg.out.o[key].t = "arr"
            ELSE IF key \in KeysOf(mg.child) THEN mg.out.o[key] = mg.child.o[key]
            ELSE mg.out.o[key] = mg.parent.o[key]

\* both sides watch a with one handler each, and only the parent watches b
C20_Witness ==
  /\ mg.kind = "watch" /\ mg.done
  /\ mg.parent = Obj([a |-> Fn("h1"), b |-> Fn("h2")])
  /\ mg.child = Obj([a |-> Fn("h2")])
  /\ mg.out = Obj([a |-> Arr(<< Fn("h1"), Fn("h2") >>), b |-> Fn("h2")])

(***************************************************************************)
(* C19 - merging the child record again into the result of                 *)
(* mergeOptions(parent, child) gives a record equal to that result, under  *)
(* every option key.                                                       *)
(***************************************************************************)
C19_MergeIdempotent ==
  mg.kind = "options" /\ mg.pass = 2 => mg.out = mg.parent

\* the keys whose strategy is not the watch strategy are merged idempotently
C19_IdempotentButWatch ==
  mg.kind = "options" /\ mg.pass = 2 =>
    /\ DOMAIN mg.out.o = DOMAIN mg.parent.o
    /\ \A key \in DOMAIN mg.out.o \ {"watch"} : mg.out.o[key] = mg.parent.o[key]

(***************************************************************************)
(* PART 7 - the state of an instance: initState, injections, props         *)
(*                                                                         *)
(* An instance is its own properties, the properties of its constructor's *)
(* prototype, and the two stores _props and _data.  A property is a data   *)
(* property holding a value, an accessor that proxy() defined over one of  *)
(* the stores, or the accessor of a computed property.                     *)
(***************************************************************************)

StateKeys == {"k", "j"}

\* the four options that declare instance properties, in the order of initState
StateKinds == << "props", "methods", "data", "computed" >>

\* what each declaration of a key holds: the prop's value from propsData, the
\* method, the data value, what the computed getter returns
DeclValue(kind) ==
  CASE kind = "props" -> Prim("p")
    [] kind = "methods" -> Fn("m")
    [] kind = "data" -> Prim("d")
    [] kind = "computed" -> Prim("c")

NoProperties == [k \in {} |-> Undef]

put(f, key, val) == [x \in DOMAIN f \cup {key} |-> IF x = key THEN val ELSE f[x]]

\* key in vm: an own property or one of the prototype
inVm(v, key) == key \in DOMAIN v.own \/ key \in DOMAIN v.proto

\* the property a read or a write of vm[key] finds
descriptorOf(v, key) ==
  IF key \in DOMAIN v.own THEN v.own[key]
  ELSE IF key \in DOMAIN v.proto THEN v.proto[key]
  ELSE [d |-> "none"]

\* Object.defineProperty(target, key, { get: this[sourceKey][key], set: ... })
proxy(v, sourceKey, key) ==
  [v EXCEPT !.own = put(@, key, [d |-> "proxy", src |-> sourceKey])]

\* vm[key]: the getter of the accessor, or the value of the data property
getProperty(v, key) ==
  LET desc == descriptorOf(v, key) IN
    CASE desc.d = "none" -> Undef
      [] desc.d = "value" -> desc.v
      [] desc.d = "proxy" ->
           IF desc.src = "_props"
           THEN (IF key \in DOMAIN v._props THEN v._props[key] ELSE Undef)
           ELSE (IF key \in DOMAIN v._data THEN v._data[key] ELSE Undef)
      [] desc.d = "computed" -> DeclValue("computed")

\* vm[key] = val: through the setter of an accessor (proxySetter writes the
\* store, the setter of a computed function is noop), else an own data property
setProperty(v, key, val) ==
  LET desc == descriptorOf(v, key) IN
    CASE desc.d = "proxy" ->
           IF desc.src = "_props"
           THEN [v EXCEPT !._props = put(@, key, val)]
           ELSE [v EXCEPT !._data = put(@, key, val)]
      [] desc.d = "computed" -> v
      [] OTHER -> [v EXCEPT !.own = put(@, key, [d |-> "value", v |-> val])]

\* the body of the loop of initProps
initPropsKey(v, key, opts) ==
  LET defined == [v EXCEPT !._props = put(@, key, DeclValue("props"))]
  IN IF ~inVm(defined, key) THEN proxy(defined, "_props", key) ELSE defined

\* the body of the loop of initMethods
initMethodsKey(v, key, opts) == setProperty(v, key, DeclValue("methods"))

\* the body of the loop of initData: a key of props is not proxied
initDataKey(v, key, opts) ==
  IF key \in opts.props THEN v ELSE proxy(v, "_data", key)

\* defineComputed(vm, key, userDef)
defineComputed(v, key) == [v EXCEPT !.own = put(@, key, [d |-> "computed"])]

\* the body of the loop of initComputed: a key already in vm is not defined
initComputedKey(v, key, opts) ==
  IF ~inVm(v, key) THEN defineComputed(v, key) ELSE v

\* the keys of one option, visited one after the other by the loop of its
\* initialiser
RECURSIVE eachKey(_, _, _, _)
eachKey(v, keys, opts, kind) ==
  IF keys = {} THEN v
  ELSE LET key == CHOOSE x \in keys : TRUE
           next == CASE kind = "props" -> initPropsKey(v, key, opts)
                     [] kind = "methods" -> initMethodsKey(v, key, opts)
                     [] kind = "data" -> initDataKey(v, key, opts)
                     [] kind = "computed" -> initComputedKey(v, key, opts)
       IN eachKey(next, keys \ {key}, opts, kind)

initProps(v, opts) == eachKey(v, opts.props, opts, "props")

initMethods(v, opts) == eachKey(v, opts.methods, opts, "methods")

\* vm._data holds the data record, then every key of it is visited
initData(v, opts) ==
  eachKey([v EXCEPT !._data = [k \in opts.data |-> DeclValue("data")]],
          opts.data, opts, "data")

initComputed(v, opts) == eachKey(v, opts.computed, opts, "computed")

\* Vue.extend defines the props proxies and the computed accessors of the
\* extended options on Sub.prototype
subPrototype(opts) ==
  [k \in opts.props \cup opts.computed |->
     IF k \in opts.props THEN [d |-> "proxy", src |-> "_props"]
     ELSE [d |-> "computed"]]

newVm(opts, extended) ==
  [own |-> NoProperties,
   proto |-> IF extended THEN subPrototype(opts) ELSE NoProperties,
   _props |-> NoProperties,
   _data |-> NoProperties]

\* initState: props, methods, data, computed, each when the option is there
initStateOf(v, opts) ==
  LET p == IF opts.props # {} THEN initProps(v, opts) ELSE v
      m == IF opts.methods # {} THEN initMethods(p, opts) ELSE p
      d == IF opts.data # {} THEN initData(m, opts) ELSE m
  IN IF opts.computed # {} THEN initComputed(d, opts) ELSE d

\* the options of an instance: the keys each of the four options declares
StateOptions == [props : SUBSET StateKeys, methods : SUBSET StateKeys,
                 data : SUBSET StateKeys, computed : SUBSET StateKeys]

InStateInit ==
  \E opts \in StateOptions, extended \in BOOLEAN :
    inst = [kind |-> "state", opts |-> opts, extended |-> extended,
            done |-> FALSE, vm |-> newVm(opts, extended)]

\* new Vue(options) or new Sub(): initState(vm)
InInitState ==
  /\ inst.kind = "state" /\ ~inst.done
  /\ inst' = [inst EXCEPT !.done = TRUE, !.vm = initStateOf(inst.vm, inst.opts)]
  /\ UNCHANGED exceptIn

\* the options that declare a key, and the one initialised last
declaring(opts, key) == {i \in 1..4 : key \in opts[StateKinds[i]]}

latest(opts, key) == StateKinds[SetMax(declaring(opts, key))]

(***************************************************************************)
(* C21 - a key declared in more than one of props, methods, data and       *)
(* computed resolves, on the initialised instance, to the declaration      *)
(* that is initialised last in the order props, methods, data, computed.   *)
(***************************************************************************)
C21_LaterWins ==
  inst.kind = "state" /\ inst.done =>
    \A key \in StateKeys :
      Cardinality(declaring(inst.opts, key)) >= 2 =>
        getProperty(inst.vm, key) = DeclValue(latest(inst.opts, key))

\* what the code does: a prop is never replaced by data, and a computed
\* property is never defined over a key that is already in vm
C21_EarlierKept ==
  inst.kind = "state" /\ inst.done =>
    \A key \in StateKeys :
      /\ key \in inst.opts.props /\ key \in inst.opts.data /\ key \notin inst.opts.methods
           => getProperty(inst.vm, key) = DeclValue("props")
      /\ key \in inst.opts.computed /\ ~inst.extended /\ declaring(inst.opts, key) # {4}
           => getProperty(inst.vm, key) # DeclValue("computed")

(***************************************************************************)
(* Injections.  chain[1] is the instance, chain[i + 1] the $parent of      *)
(* chain[i]; the last one has no $parent.  Each holds its _provided: Undef *)
(* or an object with own keys and keys it inherits from its prototype.     *)
(***************************************************************************)

MaxChain == 3

ProvideNames == {"foo", "bar"}

\* the value instance i provides under a name
ProvidedValue(name, i) == Prim(<< name, i >>)

ProvidedShapes ==
  {Undef} \cup
  {[t |-> "obj", own |-> own, inherited |-> {}] : own \in SUBSET ProvideNames} \cup
  {[t |-> "obj", own |-> {}, inherited |-> {"foo"}]}

Chains == UNION {[1..n -> ProvidedShapes] : n \in 1..MaxChain}

\* the normalised inject option: key -> { from, default? }
InjectDefaults == {Undef, Prim("dflt"), Fn("mk")}

InjectEntries == [from : ProvideNames, hasDefault : {TRUE}, default : InjectDefaults]
                   \cup [from : ProvideNames, hasDefault : {FALSE}, default : {Undef}]

InjectOptions ==
  {Undef} \cup
  {Obj(NoKeys)} \cup
  {Obj([k \in {"a"} |-> e]) : e \in InjectEntries} \cup
  {Obj([k \in {"a", "b"} |->
         IF k = "a" THEN e ELSE [from |-> "bar", hasDefault |-> FALSE, default |-> Undef]])
     : e \in InjectEntries}

\* hasOwn(source._provided, provideKey)
providesOwn(provided, provideKey) ==
  provided # Undef /\ provideKey \in provided.own

\* the while loop: from source i upward, the first source that provides the
\* key, or 0 when source has become undefined
RECURSIVE walkParents(_, _, _)
walkParents(chain, i, provideKey) ==
  IF i > Len(chain) THEN 0
  ELSE IF providesOwn(chain[i], provideKey) THEN i
  ELSE walkParents(chain, i + 1, provideKey)

RECURSIVE walkFromRoot(_, _, _)
walkFromRoot(chain, i, provideKey) ==
  IF i < 1 THEN 0
  ELSE IF providesOwn(chain[i], provideKey) THEN i
  ELSE walkFromRoot(chain, i - 1, provideKey)

sourceOfRoot(chain, provideKey) == walkFromRoot(chain, Len(chain), provideKey)

\* let source = vm; while (source) { ...; source = source.$parent }
sourceOf(chain, provideKey) == walkParents(chain, 1, provideKey)

\* provideDefault.call(vm) for a function, the value itself otherwise
injectDefault(provideDefault) ==
  IF provideDefault.t = "fn" THEN Prim(<< provideDefault.f, "called with", 1 >>)
  ELSE provideDefault

\* the body of the for loop of resolveInject for one key
resolveInjectKey(result, entry, key, chain, source) ==
  IF source # 0
  THEN put(result, key, ProvidedValue(entry.from, source))
  ELSE IF entry.hasDefault
  THEN put(result, key, injectDefault(entry.default))
  ELSE result

RECURSIVE resolveInjectKeys(_, _, _, _)
resolveInjectKeys(result, inject, keys, chain) ==
  IF keys = {} THEN result
  ELSE LET key == CHOOSE x \in keys : TRUE
       IN resolveInjectKeys(
            resolveInjectKey(result, inject.o[key], key, chain,
                             sourceOf(chain, inject.o[key].from)),
            inject, keys \ {key}, chain)

\* resolveInject(inject, vm): undefined without an inject option
resolveInject(inject, chain) ==
  IF inject = Undef THEN Undef
  ELSE Obj(resolveInjectKeys(NoProperties, inject, DOMAIN inject.o, chain))

InInjectInit ==
  \E inject \in InjectOptions, chain \in Chains :
    inst = [kind |-> "inject", inject |-> inject, chain |-> chain,
            done |-> FALSE, result |-> Undef]

\* initInjections(vm): const result = resolveInject(vm.$options.inject, vm)
InResolveInject ==
  /\ inst.kind = "inject" /\ ~inst.done
  /\ inst' = [inst EXCEPT !.done = TRUE,
                          !.result = resolveInject(inst.inject, inst.chain)]
  /\ UNCHANGED exceptIn

\* the instances of the chain whose _provided has the name as an own key
providers(chain, name) == {i \in 1..Len(chain) : providesOwn(chain[i], name)}

SetMin(S) == CHOOSE x \in S : \A y \in S : x <= y

(***************************************************************************)
(* C22 - resolveInject gives every injected key the value of the nearest   *)
(* instance of the chain (the instance itself, then its $parent, upward)   *)
(* whose _provided has the from-name as an own key; when none provides it  *)
(* the declared default is used, a function default being called with the  *)
(* instance; with no default the key is left out of the result.            *)
(***************************************************************************)
C22_NearestProvider ==
  inst.kind = "inject" /\ inst.done /\ inst.inject # Undef =>
    /\ inst.result # Undef
    /\ DOMAIN inst.result.o \subseteq DOMAIN inst.inject.o
    /\ \A key \in DOMAIN inst.inject.o :
         LET entry == inst.inject.o[key]
             from == providers(inst.chain, entry.from)
         IN IF from # {}
            THEN /\ key \in DOMAIN inst.result.o
                 /\ inst.result.o[key] = ProvidedValue(entry.from, SetMin(from))
            ELSE IF entry.hasDefault
            THEN /\ key \in DOMAIN inst.result.o
                 /\ inst.result.o[key] =
                      (IF entry.default.t = "fn"
                       THEN Prim(<< entry.default.f, "called with", 1 >>)
                       ELSE entry.default)
            ELSE key \notin DOMAIN inst.result.o

\* the parent and the grandparent provide foo, the instance only inherits it:
\* the parent's value is injected; bar, provided by nobody, is left out
C22_Witness ==
  /\ inst.kind = "inject" /\ inst.done
  /\ Len(inst.chain) = 3
  /\ inst.chain[1] = [t |-> "obj", own |-> {}, inherited |-> {"foo"}]
  /\ providers(inst.chain, "foo") = {2, 3}
  /\ inst.inject # Undef
  /\ DOMAIN inst.inject.o = {"a", "b"}
  /\ inst.inject.o["a"].from = "foo"
  /\ inst.result = Obj([k \in {"a"} |-> ProvidedValue("foo", 2)])

(***************************************************************************)
(* Props.  validateProp(key, propOptions, propsData, vm) gives the value   *)
(* of one prop.  A JavaScript value is Undef, a string, a boolean, a       *)
(* number or a function; a type is a constructor or an array of them.      *)
(***************************************************************************)

Str(s) == [t |-> "str", v |-> s]
Bool(b) == [t |-> "bool", v |-> b]
Num(n) == [t |-> "num", v |-> n]
Ctor(name) == [t |-> "ctor", f |-> name]

PropKeys == {"myProp", "ok"}

\* hyphenate, on the keys of PropKeys and on the strings of PropValues
hyphenate(str) == IF str = "myProp" THEN "my-prop" ELSE str

PropTypes ==
  {Undef, Ctor("Boolean"), Ctor("String"), Ctor("Function"),
   Arr(<< Ctor("Boolean"), Ctor("String") >>),
   Arr(<< Ctor("String"), Ctor("Boolean") >>),
   Arr(<< Ctor("Function"), Ctor("Boolean") >>)}

PropValues ==
  {Undef, Str(""), Str("my-prop"), Str("ok"), Str("other"),
   Bool("true"), Bool("false"), Num("0")}

PropDefaults == {Bool("true"), Str("d"), Fn("factory")}

PropValidators == {"none", "accept", "reject"}

PropOptions ==
  [type : PropTypes, hasDefault : {FALSE}, default : {Undef},
   required : BOOLEAN, validator : PropValidators]
  \cup
  [type : PropTypes, hasDefault : {TRUE}, default : PropDefaults,
   required : BOOLEAN, validator : PropValidators]

\* propsData[key]: whether propsData has the key as its own, and its value
PropsData == {[has |-> FALSE, value |-> Undef]} \cup [has : {TRUE}, value : PropValues]

\* typeof value
typeOf(value) ==
  CASE value.t = "undef" -> "undefined"
    [] value.t = "str" -> "string"
    [] value.t = "bool" -> "boolean"
    [] value.t = "num" -> "number"
    [] value.t = "fn" -> "function"

\* getType(fn): the name after "function" in fn.toString(); the string of an
\* array of constructors starts with the string of its first element
getType(fn) ==
  IF fn = Undef THEN ""
  ELSE IF fn.t = "ctor" THEN fn.f
  ELSE IF fn.t = "arr" /\ Len(fn.a) > 0 THEN fn.a[1].f
  ELSE ""

isSameType(a, b) == getType(a) = getType(b)

getTypeIndexFound(type, expectedTypes) ==
  IF expectedTypes # Undef /\ expectedTypes.t = "arr"
  THEN (IF \E i \in 1..Len(expectedTypes.a) : isSameType(expectedTypes.a[i], type)
        THEN 0 ELSE -1)
  ELSE (IF isSameType(expectedTypes, type) THEN 0 ELSE -1)

\* getTypeIndex: the (0-based) index of the first element of the same type
getTypeIndex(type, expectedTypes) ==
  IF expectedTypes # Undef /\ expectedTypes.t = "arr"
  THEN LET found == {i \in 1..Len(expectedTypes.a) : isSameType(expectedTypes.a[i], type)}
       IN IF found = {} THEN -1 ELSE SetMin(found) - 1
  ELSE (IF isSameType(expectedTypes, type) THEN 0 ELSE -1)

\* getPropDefaultValue; previous is vm._props[key], kept when propsData[key]
\* is undefined again
getPropDefaultValue(prop, previous) ==
  IF ~prop.hasDefault THEN Undef
  ELSE IF previous # Undef THEN previous
  ELSE IF prop.default.t = "fn" /\ getType(prop.type) # "Function"
  THEN Str(prop.default.f \o "()")
  ELSE prop.default

\* assertType(value, type).valid, for the simple types
assertType(value, type) ==
  CASE getType(type) = "Boolean" -> typeOf(value) = "boolean"
    [] getType(type) = "String" -> typeOf(value) = "string"
    [] getType(type) = "Function" -> typeOf(value) = "function"
    [] OTHER -> FALSE

\* assertProp: the warnings it gives; it returns nothing
assertProp(prop, value, absent) ==
  LET types == IF prop.type = Undef THEN << >>
               ELSE IF prop.type.t = "arr" THEN prop.type.a ELSE << prop.type >>
      valid == prop.type = Undef \/ \E i \in 1..Len(types) : assertType(value, types[i])
  IN IF prop.required /\ absent THEN << "Missing required prop" >>
     ELSE IF value = Undef /\ ~prop.required THEN << >>
     ELSE IF ~valid THEN << "Invalid prop: type check failed" >>
     ELSE IF prop.validator = "reject" THEN << "Invalid prop: custom validator check failed" >>
     ELSE << >>

\* the Boolean casting of validateProp
castBoolean(key, prop, absent, value) ==
  LET booleanIndex == getTypeIndex(Ctor("Boolean"), prop.type)
      stringIndex == getTypeIndex(Ctor("String"), prop.type)
  IN IF booleanIndex > -1
     THEN IF absent /\ ~prop.hasDefault THEN Bool("false")
          ELSE IF value = Str("") \/ value = Str(hyphenate(key))
          THEN (IF stringIndex < 0 \/ booleanIndex < stringIndex
                THEN Bool("true") ELSE value)
          ELSE value
     ELSE value

\* validateProp: the value it returns and the warnings given on the way
validateProp(key, prop, propsData, previous) ==
  LET absent == ~propsData.has
      cast == castBoolean(key, prop, absent, propsData.value)
      value == IF cast = Undef THEN getPropDefaultValue(prop, previous) ELSE cast
  IN [value |-> value, warns |-> assertProp(prop, value, absent)]

InPropInit ==
  \E key \in PropKeys, prop \in PropOptions, propsData \in PropsData,
     previous \in {Undef, Str("previous")} :
    inst = [kind |-> "prop", key |-> key, prop |-> prop, propsData |-> propsData,
            previous |-> previous, done |-> FALSE, value |-> Undef, warns |-> << >>]

\* initProps: const value = validateProp(key, propsOptions, propsData, vm)
InValidateProp ==
  /\ inst.kind = "prop" /\ ~inst.done
  /\ LET r == validateProp(inst.key, inst.prop, inst.propsData, inst.previous)
     IN inst' = [inst EXCEPT !.done = TRUE, !.value = r.value, !.warns = r.warns]
  /\ UNCHANGED exceptIn

\* the elements of the type list of a prop
typeList(prop) ==
  IF prop.type = Undef THEN << >>
  ELSE IF prop.type.t = "arr" THEN prop.type.a ELSE << prop.type >>

hasType(prop, name) == \E i \in 1..Len(typeList(prop)) : typeList(prop)[i] = Ctor(name)

stringBeforeBoolean(prop) ==
  \E i, j \in 1..Len(typeList(prop)) :
    i < j /\ typeList(prop)[i] = Ctor("String") /\ typeList(prop)[j] = Ctor("Boolean")

(***************************************************************************)
(* C23 - for a prop whose type list includes Boolean, validateProp gives   *)
(* false when the prop is absent from propsData and has no default, and    *)
(* true for a value that is the empty string or the hyphenated prop name   *)
(* unless String comes before Boolean in the type list; every other value  *)
(* that is passed comes back as it was passed (an undefined value goes on  *)
(* to the default); a failed type, required or validator check gives a     *)
(* warning and leaves the returned value as it is.                         *)
(***************************************************************************)
C23_BooleanCasting ==
  inst.kind = "prop" /\ inst.done =>
    LET absent == ~inst.propsData.has
        passed == inst.propsData.value
        castable == passed = Str("") \/ passed = Str(hyphenate(inst.key))
        expected ==
          IF hasType(inst.prop, "Boolean") /\ absent /\ ~inst.prop.hasDefault
          THEN Bool("false")
          ELSE IF hasType(inst.prop, "Boolean") /\ castable
                  /\ ~stringBeforeBoolean(inst.prop)
          THEN Bool("true")
          ELSE IF passed # Undef THEN passed
          ELSE getPropDefaultValue(inst.prop, inst.previous)
    IN inst.value = expected

\* myProp: [Boolean, String] passed as "my-prop" becomes true, and the
\* validator that rejects it only warns
C23_Witness ==
  /\ inst.kind = "prop" /\ inst.done
  /\ inst.key = "myProp"
  /\ inst.prop.type = Arr(<< Ctor("Boolean"), Ctor("String") >>)
  /\ inst.propsData = [has |-> TRUE, value |-> Str("my-prop")]
  /\ inst.prop.validator = "reject"
  /\ inst.value = Bool("true")
  /\ inst.warns = << "Invalid prop: custom validator check failed" >>

InInit == InStateInit \/ InInjectInit \/ InPropInit

InNext == InInitState \/ InResolveInject \/ InValidateProp

InitState == InInit /\ EvIdle /\ ObIdle /\ RxIdle /\ GlIdle /\ MgIdle /\ CpIdle /\ TvIdle /\ UlIdle

SpecState == InitState /\ [][InNext]_vars

(***************************************************************************)
(* PART 8 - the HTML parser: parseHTML                                     *)
(*                                                                         *)
(* A string is a sequence of characters.  The regular expressions of the   *)
(* parser are matched character by character; each matcher gives the       *)
(* length of the match at the start of the string, 0 when there is none.   *)
(***************************************************************************)

\* the letters of the templates; a tag name starts with one
Letters == {"a", "b", "c", "d", "e", "i", "l", "n", "p", "r", "s", "t", "v", "x", "y", "P"}

\* [\-\.0-9_a-zA-Z]: what a tag name goes on with
NameChars == Letters \cup {"-", ".", "_", "0", "1"}

Whitespace == {" "}

\* String.prototype.substring(n) and substring(0, n)
drop(str, n) == SubSeq(str, n + 1, Len(str))

take(str, n) == SubSeq(str, 1, n)

startsWith(str, pat) == Len(str) >= Len(pat) /\ take(str, Len(pat)) = pat

\* String.prototype.indexOf(pat, from): 0-based, -1 when pat does not occur
indexOf(str, pat, from) ==
  LET at == {i \in from..(Len(str) - Len(pat)) : SubSeq(str, i + 1, i + Len(pat)) = pat}
  IN IF at = {} THEN -1 ELSE SetMin(at)

\* the length of the longest prefix of str made of characters of Class
RECURSIVE runOf(_, _)
runOf(str, Class) ==
  IF str # << >> /\ Head(str) \in Class THEN 1 + runOf(Tail(str), Class) ELSE 0

\* the characters of a string joined into one value
RECURSIVE text(_)
text(str) == IF str = << >> THEN "" ELSE Head(str) \o text(Tail(str))

\* String.prototype.toLowerCase
lowerChar(c) == IF c = "P" THEN "p" ELSE c

toLowerCase(str) == [i \in 1..Len(str) |-> lowerChar(str[i])]

\* ncname: [a-zA-Z_][\-\.0-9_a-zA-Z]*  (the templates have no colon, so a
\* qname is an ncname)
ncname(str) ==
  IF str # << >> /\ Head(str) \in Letters \cup {"_"}
  THEN 1 + runOf(Tail(str), NameChars) ELSE 0

\* startTagOpen: ^<qname
startTagOpen(str) ==
  IF str # << >> /\ Head(str) = "<" /\ ncname(Tail(str)) > 0
  THEN 1 + ncname(Tail(str)) ELSE 0

\* startTagClose: ^\s*(\/?)>  - the length of the match and the slash
startTagClose(str) ==
  LET ws == runOf(str, Whitespace)
      rest == drop(str, ws)
  IN IF startsWith(rest, << "/", ">" >>) THEN [len |-> ws + 2, slash |-> "/"]
     ELSE IF startsWith(rest, << ">" >>) THEN [len |-> ws + 1, slash |-> ""]
     ELSE [len |-> 0, slash |-> ""]

\* endTag: ^<\/qname[^>]*>  - the length of the match and the name
endTag(str) ==
  LET name == IF startsWith(str, << "<", "/" >>) THEN ncname(drop(str, 2)) ELSE 0
      close == indexOf(str, << ">" >>, 2 + name)
  IN IF name > 0 /\ close >= 0
     THEN [len |-> close + 1, name |-> SubSeq(str, 3, 2 + name)]
     ELSE [len |-> 0, name |-> << >>]

\* comment: ^<!--      conditionalComment: ^<![
comment(str) == startsWith(str, << "<", "!", "-", "-" >>)

conditionalComment(str) == startsWith(str, << "<", "!", "[" >>)

\* doctype: ^<!DOCTYPE [^>]+>  - the length of the match
doctype(str) ==
  LET open == << "<", "!", "d", "o", "c", "t", "y", "p", "e", " " >>
      close == indexOf(str, << ">" >>, Len(open))
  IN IF startsWith(toLowerCase(str), open) /\ close > Len(open)
     THEN close + 1 ELSE 0

\* what an attribute name and an unquoted attribute value are made of
AttrNameChars == NameChars \cup {"!", "[", "]"}

AttrValueChars == AttrNameChars \cup {"/"}

\* attribute: ^\s*([^\s"'<>\/=]+)(?:\s*(=)\s*(?:"([^"]*)"+|([^\s"'=<>`]+)))?
\* - the length of the match, the name and the value
attribute(str) ==
  LET ws == runOf(str, Whitespace)
      name == runOf(drop(str, ws), AttrNameChars)
      afterName == drop(str, ws + name)
      ws1 == runOf(afterName, Whitespace)
      hasEq == startsWith(drop(afterName, ws1), << "=" >>)
      afterEq == drop(afterName, ws1 + 1)
      ws2 == runOf(afterEq, Whitespace)
      val == drop(afterEq, ws2)
      quoted == startsWith(val, << "\"" >>) /\ indexOf(val, << "\"" >>, 1) > 0
      closing == indexOf(val, << "\"" >>, 1)
      quotes == runOf(drop(val, closing), {"\""})
      bare == runOf(val, AttrValueChars)
      nameOnly == [len |-> ws + name, name |-> SubSeq(str, ws + 1, ws + name), value |-> << >>]
  IN IF name = 0 THEN [len |-> 0, name |-> << >>, value |-> << >>]
     ELSE IF ~hasEq THEN nameOnly
     ELSE IF quoted
     THEN [len |-> ws + name + ws1 + 1 + ws2 + closing + quotes,
           name |-> nameOnly.name, value |-> SubSeq(val, 2, closing)]
     ELSE IF bare > 0
     THEN [len |-> ws + name + ws1 + 1 + ws2 + bare,
           name |-> nameOnly.name, value |-> take(val, bare)]
     ELSE nameOnly

(***************************************************************************)
(* The parser.  Its state p is the remaining html, the cursor index, the   *)
(* stack of open frames, lastTag, and out: the calls of options.start,     *)
(* options.end, options.chars, options.comment and options.warn, in the    *)
(* order they were made.  A position that was not passed is NoPos.         *)
(***************************************************************************)

\* lastTag when it is undefined or 0
NoTag == << >>

NoPos == -1

TagP == << "p" >>
TagBr == << "b", "r" >>
TagDiv == << "d", "i", "v" >>
TagSpan == << "s", "p", "a", "n" >>
TagStyle == << "s", "t", "y", "l", "e" >>

\* isPlainTextElement = makeMap('script,style,textarea', true)
isPlainTextElement(tag) == toLowerCase(tag) \in {TagStyle}

StartEvent(tag, attrs, unary, start, end) ==
  [e |-> "start", tag |-> tag, attrs |-> attrs, unary |-> unary, start |-> start, end |-> end]

EndEvent(tag, start, end) == [e |-> "end", tag |-> tag, start |-> start, end |-> end]

CharsEvent(str, start, end) == [e |-> "chars", text |-> text(str), start |-> start, end |-> end]

CommentEvent(str, start, end) ==
  [e |-> "comment", text |-> text(str), start |-> start, end |-> end]

WarnEvent(msg, tag) == [e |-> "warn", msg |-> msg, tag |-> tag]

emit(p, event) == [p EXCEPT !.out = Append(@, event)]

advanceKeepIndex(p, n) == [p EXCEPT !.html = drop(@, n)]

\* advance(n)
advance(p, n) == [p EXCEPT !.index = @ + n, !.html = drop(@, n)]

\* the loop of parseEndTag over the frames i, i - 1, ..., pos + 1 (the frames
\* stack[i - 1] down to stack[pos] of the source)
RECURSIVE closeFrames(_, _, _, _, _, _)
closeFrames(p, i, pos, tagName, start, end) ==
  IF i <= pos THEN p
  ELSE LET warned == IF i > pos + 1 \/ tagName = NoTag
                     THEN emit(p, WarnEvent("has no matching end tag", p.stack[i].tag))
                     ELSE p
       IN closeFrames(emit(warned, EndEvent(p.stack[i].tag, start, end)),
                      i - 1, pos, tagName, start, end)

parseEndTagKeepStack(p, tagName, start, end) ==
  LET lowerCasedTagName == toLowerCase(tagName)
      same == {i \in 1..Len(p.stack) : p.stack[i].lowerCasedTag = lowerCasedTagName}
      pos == IF tagName # NoTag THEN (IF same = {} THEN -1 ELSE SetMax(same) - 1) ELSE 0
  IN IF pos >= 0 THEN closeFrames(p, Len(p.stack), pos, tagName, start, end)
     ELSE p

parseEndTagKeepLastTag(p, tagName, start, end) ==
  LET lowerCasedTagName == toLowerCase(tagName)
      same == {i \in 1..Len(p.stack) : p.stack[i].lowerCasedTag = lowerCasedTagName}
      pos == IF tagName # NoTag THEN (IF same = {} THEN -1 ELSE SetMax(same) - 1) ELSE 0
      closed == closeFrames(p, Len(p.stack), pos, tagName, start, end)
  IN IF pos >= 0
     THEN [closed EXCEPT !.stack = take(@, pos)]
     ELSE IF lowerCasedTagName = TagBr
     THEN emit(p, StartEvent(tagName, << >>, TRUE, start, end))
     ELSE IF lowerCasedTagName = TagP
     THEN emit(emit(p, StartEvent(tagName, << >>, FALSE, start, end)),
               EndEvent(tagName, start, end))
     ELSE p

\* parseEndTag(tagName, start, end); parseEndTag() is tagName = NoTag
parseEndTag(p, tagName, start, end) ==
  LET lowerCasedTagName == toLowerCase(tagName)
      same == {i \in 1..Len(p.stack) : p.stack[i].lowerCasedTag = lowerCasedTagName}
      pos == IF tagName # NoTag THEN (IF same = {} THEN -1 ELSE SetMax(same) - 1) ELSE 0
      closed == closeFrames(p, Len(p.stack), pos, tagName, start, end)
  IN IF pos >= 0
     THEN [closed EXCEPT !.stack = take(@, pos),
                         !.lastTag = IF pos = 0 THEN NoTag ELSE p.stack[pos].tag]
     ELSE IF lowerCasedTagName = TagBr
     THEN emit(p, StartEvent(tagName, << >>, TRUE, start, end))
     ELSE IF lowerCasedTagName = TagP
     THEN emit(emit(p, StartEvent(tagName, << >>, FALSE, start, end)),
               EndEvent(tagName, start, end))
     ELSE p

\* the loop of parseStartTag: attributes until the tag closes or nothing matches
RECURSIVE parseAttrs(_, _)
parseAttrs(p, match) ==
  LET end == startTagClose(p.html)
      attr == attribute(p.html)
  IN IF end.len > 0
     THEN [p |-> advance(p, end.len),
           match |-> [match EXCEPT !.unarySlash = end.slash, !.end = p.index + end.len,
                                   !.closed = TRUE]]
     ELSE IF attr.len > 0
     THEN parseAttrs(advance(p, attr.len),
                     [match EXCEPT !.attrs = Append(@, [name |-> text(attr.name),
                                                        value |-> text(attr.value),
                                                        start |-> p.index,
                                                        end |-> p.index + attr.len])])
     ELSE [p |-> p, match |-> [match EXCEPT !.closed = FALSE]]

\* parseStartTag(): the parser after it, and the match (closed = FALSE where
\* the source returns undefined)
parseStartTag(p) ==
  LET start == startTagOpen(p.html)
      match == [tagName |-> SubSeq(p.html, 2, start), attrs |-> << >>, start |-> p.index,
                unarySlash |-> "", end |-> NoPos, closed |-> FALSE]
  IN IF start > 0 THEN parseAttrs(advance(p, start), match)
     ELSE [p |-> p, match |-> match]

\* handleStartTag(match)
handleStartTag(p, match, options) ==
  LET tagName == match.tagName
      p1 == IF options.expectHTML /\ p.lastTag = TagP /\ tagName \in options.isNonPhrasingTag
            THEN parseEndTag(p, p.lastTag, p.index, p.index) ELSE p
      p2 == IF options.expectHTML /\ tagName \in options.canBeLeftOpenTag
               /\ p1.lastTag = tagName
            THEN parseEndTag(p1, tagName, p1.index, p1.index) ELSE p1
      unary == tagName \in options.isUnaryTag \/ match.unarySlash # ""
      attrs == [i \in 1..Len(match.attrs) |->
                  [name |-> match.attrs[i].name, value |-> match.attrs[i].value]]
      pushed == IF ~unary
                THEN [p2 EXCEPT !.stack = Append(@, [tag |-> tagName,
                                                     lowerCasedTag |-> toLowerCase(tagName),
                                                     attrs |-> attrs,
                                                     start |-> match.start,
                                                     end |-> match.end]),
                                !.lastTag = tagName]
                ELSE p2
  IN emit(pushed, StartEvent(tagName, attrs, unary, match.start, match.end))

\* the while loop that gathers text: textEnd moves to the next "<" until
\* the rest begins an end tag, a start tag or a comment, or has no more "<"
RECURSIVE gatherText(_, _)
gatherText(html, textEnd) ==
  LET rest == drop(html, textEnd)
      next == indexOf(rest, << "<" >>, 1)
  IN IF endTag(rest).len > 0 \/ startTagOpen(rest) > 0 \/ comment(rest)
        \/ conditionalComment(rest)
     THEN textEnd
     ELSE IF next < 0 THEN textEnd
     ELSE gatherText(html, textEnd + next)

\* the text step of a pass, with the textEnd the pass computed at its start
parseChars(p, textEnd) ==
  LET str == IF textEnd >= 0 THEN take(p.html, gatherText(p.html, textEnd)) ELSE p.html
  IN IF str # << >>
     THEN emit(advance(p, Len(str)), CharsEvent(str, p.index, p.index + Len(str)))
     ELSE p

\* a pass over html that begins with "<": the constructs in the order they
\* are tried; a start tag that does not close falls through to the text step
\* with what parseStartTag left of html
parseMarkup(p, options) ==
  LET commentEnd == indexOf(p.html, << "-", "-", ">" >>, 0)
      conditionalEnd == indexOf(p.html, << "]", ">" >>, 0)
      endTagMatch == endTag(p.html)
      startTag == parseStartTag(p)
  IN IF comment(p.html) /\ commentEnd >= 0
     THEN advance(IF options.shouldKeepComment
                  THEN emit(p, CommentEvent(SubSeq(p.html, 5, commentEnd),
                                            p.index, p.index + commentEnd + 3))
                  ELSE p,
                  commentEnd + 3)
     ELSE IF conditionalComment(p.html) /\ conditionalEnd >= 0
     THEN advance(p, conditionalEnd + 2)
     ELSE IF doctype(p.html) > 0
     THEN advance(p, doctype(p.html))
     ELSE IF endTagMatch.len > 0
     THEN parseEndTag(advance(p, endTagMatch.len), endTagMatch.name,
                      p.index, p.index + endTagMatch.len)
     ELSE IF startTag.match.closed
     THEN handleStartTag(startTag.p, startTag.match, options)
     ELSE parseChars(startTag.p, 0)

\* a pass inside script, style or textarea: everything up to the end tag of
\* the element is text
parsePlainText(p) ==
  LET stackedTag == toLowerCase(p.lastTag)
      close == << "<", "/" >> \o stackedTag
      at == {i \in 0..Len(p.html) :
               /\ startsWith(toLowerCase(drop(p.html, i)), close)
               /\ indexOf(p.html, << ">" >>, i + Len(close)) >= 0}
      from == SetMin(at)
      endTagLength == IF at = {} THEN 0
                      ELSE indexOf(p.html, << ">" >>, from + Len(close)) + 1 - from
      rest == IF at = {} THEN p.html ELSE drop(p.html, from + endTagLength)
      index == p.index + Len(p.html) - Len(rest)
      told == IF at = {} THEN p ELSE emit(p, CharsEvent(take(p.html, from), NoPos, NoPos))
  IN parseEndTag([told EXCEPT !.html = rest, !.index = index],
                 stackedTag, index - endTagLength, index)

\* the body of the main loop up to the test html === last
parsePass(p, options) ==
  IF p.lastTag = NoTag \/ ~isPlainTextElement(p.lastTag)
  THEN IF indexOf(p.html, << "<" >>, 0) = 0
       THEN parseMarkup(p, options)
       ELSE parseChars(p, indexOf(p.html, << "<" >>, 0))
  ELSE parsePlainText(p)

noAdvanceWarnAlways(p) ==
  emit(emit(p, CharsEvent(p.html, NoPos, NoPos)),
       WarnEvent("Mal-formatted tag at end of template", p.html))

\* if (html === last): the remainder is text, and the loop breaks
noAdvance(p) ==
  LET told == emit(p, CharsEvent(p.html, NoPos, NoPos))
  IN IF p.stack = << >>
     THEN emit(told, WarnEvent("Mal-formatted tag at end of template", p.html))
     ELSE told

\* the templates: up to MaxFragments fragments, one after the other
MaxFragments == 3

Fragments ==
  {<< "<", "p", ">" >>,
   << "<", "s", "p", "a", "n", ">" >>,
   << "x", "<", "/", "s", "p", "a", "n", ">" >>,
   << "<", "/", "P", ">" >>,
   << "<", "d", "i", "v", ">" >>,
   << "<", "/", "d", "i", "v", ">" >>,
   << "a", "<", "b" >>,
   << "<" >>,
   << "x" >>,
   << "<", "i", " ", "a", "=", "\"", "b", "\"", " ", "c", "/", ">" >>,
   << "<", "!", "-", "-", "c", "-", "-", ">" >>,
   << "<", "s", "t", "y", "l", "e", ">" >>,
   << "<", "/", "s", "t", "y", "l", "e", ">" >>,
   << "<", "/", "b", "r", ">" >>}

RECURSIVE flatten(_)
flatten(parts) == IF parts = << >> THEN << >> ELSE Head(parts) \o flatten(Tail(parts))

Templates == {flatten(parts) : parts \in SeqsUpTo(Fragments, MaxFragments)}

\* the options of the caller: none of the tag tables, or those of the web
\* platform over the tags of the templates
ParserOptions ==
  {[expectHTML |-> FALSE, shouldKeepComment |-> FALSE, isUnaryTag |-> {},
    canBeLeftOpenTag |-> {}, isNonPhrasingTag |-> {TagDiv, TagP}],
   [expectHTML |-> TRUE, shouldKeepComment |-> TRUE, isUnaryTag |-> {TagBr},
    canBeLeftOpenTag |-> {TagP}, isNonPhrasingTag |-> {TagDiv, TagP}]}

\* parseHTML(html, options) at its first statement
Entered(template, options) ==
  [kind |-> "html", template |-> template, options |-> options,
   at |-> "loop", stuck |-> FALSE, before |-> << >>,
   p |-> [html |-> template, index |-> 0, stack |-> << >>,
          lastTag |-> NoTag, out |-> << >>]]

CpHtmlInit ==
  \E template \in Templates, options \in ParserOptions : cp = Entered(template, options)

passEndGoesOn(c, q) == [c EXCEPT !.p = q, !.before = c.p]

\* the end of a pass: html === last breaks the loop
passEnd(c, q) ==
  IF q.html = c.p.html
  THEN [c EXCEPT !.p = noAdvance(q), !.at = "cleanup", !.stuck = TRUE, !.before = c.p]
  ELSE [c EXCEPT !.p = q, !.before = c.p]

\* one pass of while (html)
CpPass ==
  /\ cp.kind = "html" /\ cp.at = "loop" /\ cp.p.html # << >>
  /\ cp' = passEnd(cp, parsePass(cp.p, cp.options))
  /\ UNCHANGED exceptCp

\* after the loop: parseEndTag() cleans up the remaining tags
CpCleanUp ==
  /\ cp.kind = "html"
  /\ cp.at = "cleanup" \/ (cp.at = "loop" /\ cp.p.html = << >>)
  /\ cp' = [cp EXCEPT !.at = "done", !.before = cp.p,
                      !.p = parseEndTag(cp.p, NoTag, cp.p.index, cp.p.index)]
  /\ UNCHANGED exceptCp

CpInit == CpHtmlInit

CpNext == CpPass \/ CpCleanUp

InitParser == CpInit /\ EvIdle /\ ObIdle /\ RxIdle /\ GlIdle /\ MgIdle /\ InIdle /\ TvIdle /\ UlIdle

SpecParser == InitParser /\ [][CpNext]_vars

\* what the last step appended to out
emitted == SubSeq(cp.p.out, Len(cp.before.out) + 1, Len(cp.p.out))

IsEnd(event) == event.e = "end"

IsWarn(event) == event.e = "warn"

IsNoMatchingEndTag(event) == event.e = "warn" /\ event.msg = "has no matching end tag"

\* the tag name the last step called parseEndTag with as the step's own end
\* tag: none after the loop, the stacked tag inside a plain-text element, the
\* name of the end tag the html began with
closingStep ==
  cp.kind = "html" /\ cp.before # << >> /\
    \/ cp.at = "done"
    \/ cp.before.lastTag # NoTag /\ isPlainTextElement(cp.before.lastTag)
    \/ endTag(cp.before.html).len > 0

closingTag ==
  IF cp.at = "done" THEN NoTag
  ELSE IF cp.before.lastTag # NoTag /\ isPlainTextElement(cp.before.lastTag)
  THEN toLowerCase(cp.before.lastTag)
  ELSE endTag(cp.before.html).name

\* the frames of the stack before the step that the call closes: those from
\* the nearest frame with the tag upward, all of them without a tag
matching ==
  {i \in 1..Len(cp.before.stack) :
     cp.before.stack[i].lowerCasedTag = toLowerCase(closingTag)}

(***************************************************************************)
(* C24 - parseEndTag(tag) that finds its open frame at stack position pos  *)
(* calls options.end for every frame from the top of the stack down to     *)
(* pos, in that order, warns that the tag has no matching end tag for each *)
(* frame strictly above pos (for every frame when it is called without a   *)
(* tag at the end of the input), and leaves the stack with the pos frames  *)
(* below.                                                                  *)
(***************************************************************************)
C24_EndTagCloses ==
  closingStep /\ (closingTag = NoTag \/ matching # {}) =>
    LET stack == cp.before.stack
        n == Len(stack)
        pos == IF closingTag = NoTag THEN 0 ELSE SetMax(matching) - 1
        ends == SelectSeq(emitted, IsEnd)
        warns == SelectSeq(emitted, IsNoMatchingEndTag)
        above == IF closingTag = NoTag THEN n - pos ELSE n - pos - 1
    IN /\ Len(ends) = n - pos
       /\ \A k \in 1..(n - pos) : ends[k].tag = stack[n - k + 1].tag
       /\ Len(warns) = above
       /\ \A k \in 1..above : warns[k].tag = stack[n - k + 1].tag
       /\ \A k \in 1..Len(emitted) :
            IsNoMatchingEndTag(emitted[k]) =>
              k < Len(emitted) /\ IsEnd(emitted[k + 1]) /\ emitted[k + 1].tag = emitted[k].tag
       /\ cp.p.stack = take(stack, pos)

\* the calls made for "<p><span>x</span>"
ScenarioEndTagOut ==
  /\ [i \in 1..Len(cp.p.out) |-> cp.p.out[i].e]
       = << "start", "start", "chars", "end", "warn", "end" >>
  /\ cp.p.out[1].tag = TagP /\ cp.p.out[2].tag = TagSpan
  /\ cp.p.out[3].text = "x" /\ cp.p.out[4].tag = TagSpan
  /\ cp.p.out[5] = WarnEvent("has no matching end tag", TagP)
  /\ cp.p.out[6].tag = TagP

(***************************************************************************)
(* C24, the scenario - parsing "<p><span>x</span>" calls start(p),         *)
(* start(span), chars("x"), end(span) and, at the end of the input,        *)
(* end(p) with the warning for p.                                          *)
(***************************************************************************)
C24_EndTagScenario ==
  C24_EndTagCloses
  /\ (cp.kind = "html" /\ cp.at = "done" /\ text(cp.template) = "<p><span>x</span>"
        => ScenarioEndTagOut /\ cp.p.stack = << >>)

\* "<div><p>x</div>" and its like: the end tag of div closes the frame above
\* it with a warning, then div
C24_Witness ==
  /\ closingStep
  /\ cp.at = "loop" /\ cp.p.html = << >>
  /\ Len(cp.before.stack) = 2
  /\ closingTag = TagDiv
  /\ [i \in 1..Len(emitted) |-> emitted[i].e] = << "warn", "end", "end" >>
  /\ cp.p.stack = << >>

\* the scenario has run to its end
C24_ScenarioDone ==
  cp.kind = "html" /\ cp.at = "done" /\ text(cp.template) = "<p><span>x</span>"
  /\ ScenarioEndTagOut

IsChars(event) == event.e = "chars"

\* the html of the last pass began with "<" and with no complete construct:
\* no comment, conditional comment, doctype or end tag, and no start tag
\* that closes
strayLt ==
  /\ cp.kind = "html" /\ cp.before # << >> /\ cp.at # "done"
  /\ cp.before.lastTag = NoTag \/ ~isPlainTextElement(cp.before.lastTag)
  /\ startsWith(cp.before.html, << "<" >>)
  /\ ~(comment(cp.before.html) /\ indexOf(cp.before.html, << "-", "-", ">" >>, 0) >= 0)
  /\ ~(conditionalComment(cp.before.html) /\ indexOf(cp.before.html, << "]", ">" >>, 0) >= 0)
  /\ doctype(cp.before.html) = 0
  /\ endTag(cp.before.html).len = 0
  /\ ~parseStartTag(cp.before).match.closed

(***************************************************************************)
(* C25 - a "<" that does not begin a complete recognizable construct is    *)
(* treated as text and no character of the input is lost: the pass over it *)
(* calls chars with the characters it takes from the input, and parsing    *)
(* "<div>a<b</div>" calls start(div), chars("a<b"), end(div).              *)
(***************************************************************************)
C25_StrayLtIsText ==
  /\ strayLt =>
       /\ Len(emitted) >= 1 /\ IsChars(emitted[1])
       /\ text(cp.before.html) =
            (IF cp.stuck THEN emitted[1].text ELSE emitted[1].text \o text(cp.p.html))
  /\ cp.kind = "html" /\ cp.at = "done" /\ text(cp.template) = "<div>a<b</div>" =>
       /\ [i \in 1..Len(cp.p.out) |-> cp.p.out[i].e] = << "start", "chars", "end" >>
       /\ cp.p.out[1].tag = TagDiv
       /\ cp.p.out[2].text = "a<b"
       /\ cp.p.out[3].tag = TagDiv

\* what the code does with "<div>a<b</div>": chars("a") only, "<b" is dropped
C25_ScenarioLosesText ==
  cp.kind = "html" /\ cp.at = "done" /\ text(cp.template) = "<div>a<b</div>" =>
    /\ [i \in 1..Len(cp.p.out) |-> cp.p.out[i].e] = << "start", "chars", "end" >>
    /\ cp.p.out[2].text = "a"

IsMalformatted(event) ==
  event.e = "warn" /\ event.msg = "Mal-formatted tag at end of template"

\* the last pass left html as it was
noAdvanceStep == cp.kind = "html" /\ cp.stuck /\ cp.at = "cleanup"

(***************************************************************************)
(* C26, as stated - whenever a pass of the loop leaves the remaining input *)
(* unchanged, the whole remainder is emitted as one chars call, the        *)
(* malformed-template warning is issued, and the loop ends, whether or not *)
(* unclosed tags are on the stack.                                         *)
(***************************************************************************)
C26_AlwaysWarns ==
  noAdvanceStep =>
    /\ SelectSeq(emitted, IsChars) = << CharsEvent(cp.before.html, NoPos, NoPos) >>
    /\ \E k \in 1..Len(emitted) : IsMalformatted(emitted[k])

(***************************************************************************)
(* C26, amended - whenever a pass of the loop leaves the remaining input   *)
(* unchanged, the whole remainder is emitted as one chars call and the     *)
(* loop ends; the malformed-template warning is issued exactly when no     *)
(* frame is left on the stack, and it names the remainder.                 *)
(***************************************************************************)
C26_WarnsOnEmptyStack ==
  /\ noAdvanceStep =>
       /\ cp.p.html = cp.before.html
       /\ SelectSeq(emitted, IsChars) = << CharsEvent(cp.before.html, NoPos, NoPos) >>
       /\ SelectSeq(emitted, IsMalformatted)
            = (IF cp.p.stack = << >>
               THEN << WarnEvent("Mal-formatted tag at end of template", cp.before.html) >>
               ELSE << >>)
  /\ cp.kind = "html" /\ cp.at = "loop" /\ cp.before # << >> =>
       cp.p.html # cp.before.html

\* "<div><": the pass over "<" does not advance while div is open; chars("<")
\* is the only call
C26_Witness ==
  /\ noAdvanceStep
  /\ text(cp.template) = "<div><"
  /\ cp.p.stack # << >>
  /\ emitted = << CharsEvent(<< "<" >>, NoPos, NoPos) >>

\* the program before it calls parseHTML, and the call
CpBeforeCall == cp = [kind |-> "call"]

CpParseHTML ==
  /\ cp.kind = "call"
  /\ \E template \in Templates, options \in ParserOptions : cp' = Entered(template, options)
  /\ UNCHANGED exceptCp

RunsNext == CpParseHTML \/ CpPass \/ CpCleanUp

InitParserRuns == CpBeforeCall /\ EvIdle /\ ObIdle /\ RxIdle /\ GlIdle /\ MgIdle /\ InIdle /\ TvIdle /\ UlIdle

\* a pass or the clean-up can be taken: parseHTML was entered and has not
\* returned (the guards of CpPass and CpCleanUp together)
canStep == cp.kind = "html" /\ cp.at # "done"

\* the parser runs: once it is called, a pass or the clean-up that can be
\* taken is taken.  This is WF_vars(CpPass \/ CpCleanUp), with ENABLED
\* written out as canStep
SpecParserRuns ==
  InitParserRuns /\ [][RunsNext]_vars
    /\ ([]<>(~canStep) \/ []<><<CpPass \/ CpCleanUp>>_vars)

\* the last pass came to parseStartTag: html began with "<" outside a
\* plain-text element, and with no comment, conditional comment, doctype or
\* end tag
startTagStep ==
  /\ cp.kind = "html" /\ cp.before # << >> /\ cp.at # "done"
  /\ cp.before.lastTag = NoTag \/ ~isPlainTextElement(cp.before.lastTag)
  /\ startsWith(cp.before.html, << "<" >>)
  /\ ~(comment(cp.before.html) /\ indexOf(cp.before.html, << "-", "-", ">" >>, 0) >= 0)
  /\ ~(conditionalComment(cp.before.html) /\ indexOf(cp.before.html, << "]", ">" >>, 0) >= 0)
  /\ doctype(cp.before.html) = 0
  /\ endTag(cp.before.html).len = 0

\* the last pass came to the loop that gathers text
textStep ==
  /\ cp.kind = "html" /\ cp.before # << >> /\ cp.at # "done"
  /\ cp.before.lastTag = NoTag \/ ~isPlainTextElement(cp.before.lastTag)
  /\ indexOf(cp.before.html, << "<" >>, 0) > 0

\* every iteration of the attribute loop of parseStartTag moved the cursor:
\* each attribute ends after it starts and starts no earlier than the one
\* before it ended, and the cursor is at or after the end of the last
attributeLoopAdvances ==
  startTagStep =>
    LET r == parseStartTag(cp.before)
        attrs == r.match.attrs
    IN /\ \A i \in 1..Len(attrs) : attrs[i].start < attrs[i].end
       /\ \A i \in 1..(Len(attrs) - 1) : attrs[i].end <= attrs[i + 1].start
       /\ Len(attrs) > 0 => cp.before.index < attrs[1].start
                            /\ attrs[Len(attrs)].end <= r.p.index

\* every iteration of the loop that gathers text moved textEnd: the next "<"
\* is looked for from the second character of the rest, and textEnd ends
\* within html, at or after where it began
textLoopAdvances ==
  textStep =>
    LET html == cp.before.html
        textEnd == indexOf(html, << "<" >>, 0)
    IN /\ \A t \in textEnd..(Len(html) - 1) :
            indexOf(drop(html, t), << "<" >>, 1) = -1 \/ indexOf(drop(html, t), << "<" >>, 1) >= 1
       /\ gatherText(html, textEnd) \in textEnd..Len(html)

\* a pass of the main loop shortens the remaining input or breaks out
passAdvancesOrBreaks ==
  CpPass => Len(cp'.p.html) < Len(cp.p.html) \/ cp'.at = "cleanup"

(***************************************************************************)
(* C31 - parseHTML terminates on every template: each pass of the main     *)
(* loop strictly shortens the remaining input or breaks out, the attribute *)
(* loop and the text-gathering loop advance on every iteration, and the    *)
(* parser comes to its end.                                                *)
(***************************************************************************)
C31_Terminates ==
  /\ [][passAdvancesOrBreaks]_vars
  /\ [](attributeLoopAdvances /\ textLoopAdvances)
  /\ (cp.kind = "html") ~> (cp.kind = "html" /\ cp.at = "done")

\* a template of several passes, with a start tag that has two attributes
\* and a text in which a "<" is passed over, parsed to its end
C31_Witness ==
  /\ cp.kind = "html" /\ cp.at = "done"
  /\ text(cp.template) = "<i a=\"b\" c/>a<b<"
  /\ cp.stuck

\* the start events that are open after a sequence of events, the innermost
\* last, and whether every end event closed the innermost open start
RECURSIVE openAfter(_, _)
openAfter(events, open) ==
  IF events = << >> THEN [nested |-> TRUE, open |-> open]
  ELSE IF Head(events).e = "start" /\ ~Head(events).unary
  THEN openAfter(Tail(events), Append(open, Head(events).tag))
  ELSE IF Head(events).e = "end"
  THEN IF open # << >> /\ open[Len(open)] = Head(events).tag
       THEN openAfter(Tail(events), take(open, Len(open) - 1))
       ELSE [nested |-> FALSE, open |-> open]
  ELSE openAfter(Tail(events), open)

(***************************************************************************)
(* C32 - when parseHTML returns the stack is empty and the start and end   *)
(* events are well nested: every end event closes the most recent start    *)
(* that is still open, none comes without an open start, and every start   *)
(* that is not unary is closed by one end event of the same tag.  Between  *)
(* the passes the starts still open are the tags of the stack.             *)
(***************************************************************************)
C32_WellNested ==
  cp.kind = "html" =>
    LET r == openAfter(cp.p.out, << >>)
    IN /\ r.nested
       /\ r.open = [i \in 1..Len(cp.p.stack) |-> cp.p.stack[i].tag]
       /\ cp.at = "done" => cp.p.stack = << >> /\ r.open = << >>

\* "<div><p></div>" and its like: parseHTML has returned after an end tag
\* closed two frames, one of them with a warning
C32_Witness ==
  /\ cp.kind = "html" /\ cp.at = "done"
  /\ Len(SelectSeq(cp.p.out, IsEnd)) >= 2
  /\ Len(SelectSeq(cp.p.out, IsNoMatchingEndTag)) >= 1
  /\ text(cp.template) = "<div><p></div>"

\* the innermost open element is script, style or textarea
innermostIsPlainText(p) ==
  p.stack # << >> /\ toLowerCase(p.stack[Len(p.stack)].tag) \in {TagStyle}

\* what a pass makes of p when the branch is chosen by the innermost open
\* element
passByStack(p, options) ==
  IF innermostIsPlainText(p) THEN parsePlainText(p)
  ELSE IF indexOf(p.html, << "<" >>, 0) = 0 THEN parseMarkup(p, options)
  ELSE parseChars(p, indexOf(p.html, << "<" >>, 0))

(***************************************************************************)
(* C36 - between the steps of the main loop lastTag is the tag of the top  *)
(* frame of the stack, and is not set when the stack is empty; so a pass   *)
(* takes the plain-text branch exactly when the innermost open element is  *)
(* script, style or textarea.                                              *)
(***************************************************************************)
C36_LastTagIsTop ==
  cp.kind = "html" =>
    /\ cp.p.lastTag = (IF cp.p.stack = << >> THEN NoTag
                       ELSE cp.p.stack[Len(cp.p.stack)].tag)
    /\ (cp.before # << >> /\ cp.at = "loop") =>
         cp.p = passByStack(cp.before, cp.options)
    /\ (cp.before # << >> /\ cp.at = "cleanup") =>
         cp.p = noAdvance(passByStack(cp.before, cp.options))

\* "<style></style><p>": after the plain-text pass closed style the stack
\* was empty, and the next pass read "<p>" as a start tag
C36_Witness ==
  /\ cp.kind = "html" /\ cp.at = "loop" /\ cp.before # << >>
  /\ text(cp.template) = "<style></style><p>"
  /\ cp.before.stack = << >> /\ cp.before.index > 0
  /\ cp.p.lastTag = TagP

\* the calls of options.start, options.end, options.chars, options.comment
IsPositioned(event) == event.e \in {"start", "end", "chars", "comment"}

(***************************************************************************)
(* C37 - throughout parseHTML index + length(html) is the length of the    *)
(* template, and every pair of positions passed to options.start,          *)
(* options.end, options.chars and options.comment has                      *)
(* 0 <= start <= end <= length(template).  Only options.chars is called    *)
(* without positions.                                                      *)
(***************************************************************************)
C37_CursorAndPositions ==
  cp.kind = "html" =>
    /\ cp.p.index + Len(cp.p.html) = Len(cp.template)
    /\ \A k \in 1..Len(cp.p.out) :
         LET event == cp.p.out[k]
         IN IsPositioned(event) =>
              \/ event.e = "chars" /\ event.start = NoPos /\ event.end = NoPos
              \/ /\ 0 <= event.start /\ event.start <= event.end
                 /\ event.end <= Len(cp.template)

\* "<!--c--><p>x": a comment, a start tag, a text and the end at the end of
\* the input, each with its positions
C37_Witness ==
  /\ cp.kind = "html" /\ cp.at = "done"
  /\ text(cp.template) = "<!--c--><p>x"
  /\ Len(cp.p.out) = 5
  /\ cp.p.out[1] = CommentEvent(<< "c" >>, 0, 8)
  /\ cp.p.out[2] = StartEvent(TagP, << >>, FALSE, 8, 11)
  /\ cp.p.out[3] = CharsEvent(<< "x" >>, 11, 12)
  /\ cp.p.out[5] = EndEvent(TagP, 12, 12)

\* the last pass came to parseStartTag and it returned no match
startTagFailed == startTagStep /\ ~parseStartTag(cp.before).match.closed

(***************************************************************************)
(* C38 - parseStartTag is all-or-nothing: when it returns no match, the    *)
(* remaining html and the cursor index are what they were before the call. *)
(***************************************************************************)
C38_AllOrNothing ==
  startTagFailed =>
    /\ parseStartTag(cp.before).p.html = cp.before.html
    /\ parseStartTag(cp.before).p.index = cp.before.index

\* what the code does: when startTagOpen matched and no end of the tag was
\* found, the "<", the tag name and the attributes that matched are consumed,
\* and the text step of the pass goes on from what is left
C38_OpenTagConsumed ==
  (startTagFailed /\ startTagOpen(cp.before.html) > 0) =>
    LET r == parseStartTag(cp.before)
    IN /\ r.p.index >= cp.before.index + startTagOpen(cp.before.html)
       /\ r.p.html = drop(cp.before.html, r.p.index - cp.before.index)
       /\ cp.p = (IF cp.at = "cleanup" THEN noAdvance(parseChars(r.p, 0))
                  ELSE parseChars(r.p, 0))

\* "<b" at the end of the input: parseStartTag fails after "<b"
C38_FailedOpenTag ==
  /\ startTagFailed
  /\ cp.before.html = << "<", "b" >>
  /\ cp.p.html = << >>

(***************************************************************************)
(* PART 9 - the text parser: parseText                                     *)
(*                                                                         *)
(* tagRE is one regular expression object with the g flag, shared by all   *)
(* the calls: test and exec search from its lastIndex and set it.  The     *)
(* state keeps lastIndex between the calls.  The texts have no filter      *)
(* (no "|"), for which the filter parser returns the expression as it is.  *)
(***************************************************************************)

MaxPieces == 3

TextPieces ==
  {<< "h", "i", " " >>,
   << "{", "{", " ", "n", " ", "}", "}" >>,
   << "{", "{" >>,
   << "}", "}" >>,
   << "a" >>,
   << "\"" >>,
   << "{", "{", "a", ".", "b", "}", "}" >>}

Texts == {flatten(parts) : parts \in SeqsUpTo(TextPieces, MaxPieces)}

\* the texts of the calls made before
EarlierTexts ==
  {<< "a" >>,
   << "{", "{", "a", "}", "}" >>,
   << "a", "{", "{", "a", "}", "}", "a" >>,
   << "{", "{", "a", "}", "}", "{", "{" >>}

DelimOpen == << "{", "{" >>
DelimClose == << "}", "}" >>

\* defaultTagRE = /\{\{((?:.|\r?\n)+?)\}\}/g matched at position s of str
\* (0-based): the position after the match, -1 when there is none
matchAt(str, s) ==
  LET close == indexOf(str, DelimClose, s + Len(DelimOpen) + 1)
  IN IF startsWith(drop(str, s), DelimOpen) /\ close >= 0
     THEN close + Len(DelimClose) ELSE -1

\* RegExp.prototype.exec with the g flag: the first match at or after
\* lastIndex; lastIndex becomes the end of the match, or 0 without a match
exec(str, lastIndex) ==
  LET at == {s \in lastIndex..Len(str) : matchAt(str, s) >= 0}
      s == SetMin(at)
  IN IF at = {} THEN [found |-> FALSE, index |-> 0, end |-> 0, lastIndex |-> 0]
     ELSE [found |-> TRUE, index |-> s, end |-> matchAt(str, s),
           lastIndex |-> matchAt(str, s)]

\* String.prototype.trim
RECURSIVE trimStart(_)
trimStart(str) ==
  IF str # << >> /\ Head(str) \in Whitespace THEN trimStart(Tail(str)) ELSE str

RECURSIVE trimEnd(_)
trimEnd(str) ==
  IF str # << >> /\ str[Len(str)] \in Whitespace
  THEN trimEnd(SubSeq(str, 1, Len(str) - 1)) ELSE str

trim(str) == trimEnd(trimStart(str))

\* JSON.stringify of a string: quoted, with quotes and backslashes escaped
RECURSIVE escaped(_)
escaped(str) ==
  IF str = << >> THEN ""
  ELSE (IF Head(str) \in {"\"", "\\"} THEN "\\" \o Head(str) ELSE Head(str))
         \o escaped(Tail(str))

stringify(str) == "\"" \o escaped(str) \o "\""

Binding(exp) == [t |-> "@binding", v |-> exp]

\* tokens.join('+')
RECURSIVE joinPlus(_)
joinPlus(tokens) ==
  IF tokens = << >> THEN ""
  ELSE IF Len(tokens) = 1 THEN tokens[1]
  ELSE tokens[1] \o "+" \o joinPlus(Tail(tokens))

\* the state of the call: the tokens so far, the local lastIndex, and the
\* lastIndex of tagRE
pushText(r, str) ==
  IF str # << >>
  THEN [r EXCEPT !.tokens = Append(@, stringify(str)), !.rawTokens = Append(@, Str(str))]
  ELSE r

\* the while loop of parseText: one exec after the other until it gives null
RECURSIVE parseTextLoop(_, _)
parseTextLoop(str, r) ==
  LET match == exec(str, r.reLastIndex)
      exp == trim(SubSeq(str, match.index + Len(DelimOpen) + 1,
                         match.end - Len(DelimClose)))
      pushed == pushText(r, SubSeq(str, r.lastIndex + 1, match.index))
  IN IF ~match.found THEN [r EXCEPT !.reLastIndex = 0]
     ELSE parseTextLoop(str,
            [pushed EXCEPT !.tokens = Append(@, "_s(" \o text(exp) \o ")"),
                            !.rawTokens = Append(@, Binding(exp)),
                            !.lastIndex = match.end,
                            !.reLastIndex = match.lastIndex])

\* the call from the loop on, with the lastIndex that tagRE.test has left
parseTextTokens(str, reLastIndex) ==
  LET r == parseTextLoop(str, [tokens |-> << >>, rawTokens |-> << >>,
                                lastIndex |-> 0, reLastIndex |-> reLastIndex])
      tail == pushText(r, SubSeq(str, r.lastIndex + 1, Len(str)))
  IN [result |-> [expression |-> joinPlus(tail.tokens), tokens |-> tail.rawTokens],
      reLastIndex |-> r.reLastIndex]

parseTextKeepIndex(str, reLastIndex) ==
  IF ~exec(str, reLastIndex).found THEN [result |-> Undef, reLastIndex |-> 0]
  ELSE parseTextTokens(str, exec(str, reLastIndex).lastIndex)

\* parseText(text): its result, and the lastIndex it leaves in tagRE.
\* tagRE.test(text) is an exec; then lastIndex = tagRE.lastIndex = 0
parseText(str, reLastIndex) ==
  IF ~exec(str, reLastIndex).found THEN [result |-> Undef, reLastIndex |-> 0]
  ELSE parseTextTokens(str, 0)

CpTextInit ==
  \E str \in Texts, earlier \in EarlierTexts, n \in 1..2 :
    cp = [kind |-> "text", reLastIndex |-> 0,
          calls |-> IF n = 1 THEN << str >> ELSE << earlier, str >>,
          called |-> << >>, result |-> Undef]

\* parseText(text) with the next text
CpParseText ==
  /\ cp.kind = "text" /\ cp.calls # << >>
  /\ LET r == parseText(Head(cp.calls), cp.reLastIndex)
     IN cp' = [cp EXCEPT !.calls = Tail(@), !.called = Head(cp.calls),
                         !.result = r.result, !.reLastIndex = r.reLastIndex]
  /\ UNCHANGED exceptCp

TxNext == CpParseText

InitText == CpTextInit /\ EvIdle /\ ObIdle /\ RxIdle /\ GlIdle /\ MgIdle /\ InIdle /\ TvIdle /\ UlIdle

SpecText == InitText /\ [][TxNext]_vars

\* the text has a delimiter match: an opening, at least one character, and a
\* closing
hasMatch(str) ==
  \E s \in 0..(Len(str) - Len(DelimOpen)), e \in 0..(Len(str) - Len(DelimClose)) :
    /\ e >= s + Len(DelimOpen) + 1
    /\ SubSeq(str, s + 1, s + Len(DelimOpen)) = DelimOpen
    /\ SubSeq(str, e + 1, e + Len(DelimClose)) = DelimClose

\* the text without its whitespace
RECURSIVE unspaced(_)
unspaced(str) ==
  IF str = << >> THEN << >>
  ELSE IF Head(str) \in Whitespace THEN unspaced(Tail(str))
  ELSE << Head(str) >> \o unspaced(Tail(str))

\* the text the raw tokens stand for: literals as they are, an interpolation
\* between the delimiters
RECURSIVE sourceOfTokens(_)
sourceOfTokens(raw) ==
  IF raw = << >> THEN << >>
  ELSE (IF Head(raw).t = "@binding" THEN DelimOpen \o Head(raw).v \o DelimClose
        ELSE Head(raw).v) \o sourceOfTokens(Tail(raw))

(***************************************************************************)
(* C27 - parseText returns undefined exactly when the text has no          *)
(* delimiter match.  Otherwise the tokens follow the text in its order:    *)
(* every non-empty literal segment once, JSON-encoded in the expression    *)
(* and raw in the tokens, every interpolation as _s(expr) in the           *)
(* expression and as {'@binding': expr} in the tokens with expr trimmed,   *)
(* and the tail after the last interpolation; the expression is the        *)
(* tokens joined by '+'; and the result is that of a first call with the   *)
(* same text, with lastIndex of the shared regular expression left at 0.   *)
(***************************************************************************)
C27_ParseText ==
  cp.kind = "text" /\ cp.called # << >> =>
    /\ cp.result = Undef <=> ~hasMatch(cp.called)
    /\ cp.result = parseText(cp.called, 0).result
    /\ cp.reLastIndex = 0
    /\ cp.result # Undef =>
         LET raw == cp.result.tokens
             parts == [i \in 1..Len(raw) |->
                         IF raw[i].t = "@binding" THEN "_s(" \o text(raw[i].v) \o ")"
                         ELSE stringify(raw[i].v)]
         IN /\ \E i \in 1..Len(raw) : raw[i].t = "@binding"
            /\ \A i \in 1..Len(raw) : raw[i].t = "str" => raw[i].v # << >>
            /\ \A i \in 1..Len(raw) : raw[i].t = "@binding" => raw[i].v = trim(raw[i].v)
            /\ \A i \in 1..(Len(raw) - 1) : raw[i].t = "str" => raw[i + 1].t = "@binding"
            /\ unspaced(sourceOfTokens(raw)) = unspaced(cp.called)
            /\ cp.result.expression = joinPlus(parts)

\* hi {{ n }}" after an earlier call that matched: "hi ", the binding n, and
\* the quote as the tail
C27_Witness ==
  /\ cp.kind = "text" /\ cp.calls = << >>
  /\ text(cp.called) = "hi {{ n }}\""
  /\ cp.result = [expression |-> "\"hi \"+_s(n)+\"\\\"\"",
                  tokens |-> << Str(<< "h", "i", " " >>), Binding(<< "n" >>),
                                Str(<< "\"" >>) >>]

(***************************************************************************)
(* PART 10 - the optimizer: optimize, markStatic, markStaticRoots          *)
(*                                                                         *)
(* An AST node is a plain text (type 3), a text with an expression         *)
(* (type 2), or an element (type 1) of one of these kinds:                 *)
(*   div   a reserved tag with only static keys                            *)
(*   for   a reserved tag with v-for                                       *)
(*   if    a reserved tag with v-if; its else-branch is blocks[1]          *)
(*   forif a reserved tag with v-for and v-if, and its else-branch         *)
(*   pre   a reserved tag with v-pre                                       *)
(*   comp  a component: a tag that is not reserved                         *)
(*   tfor  <template v-for>                                                *)
(* An else-branch block carries the key else.  The flags static,           *)
(* staticRoot and staticInFor are "unset" until they are assigned; first   *)
(* is what isStatic gave, visited whether markStatic went into the         *)
(* children.                                                               *)
(***************************************************************************)

MaxNodes == 4

ElementKinds == {"div", "for", "if", "pre", "comp", "tfor"}

Flag(b) == IF b THEN "true" ELSE "false"

Node(kind, children, blocks) ==
  [kind |-> kind, children |-> children, blocks |-> blocks, isElse |-> FALSE,
   static |-> "unset", first |-> "unset", visited |-> FALSE,
   staticRoot |-> "unset", staticInFor |-> "unset"]

typeOf3(node) == IF node.kind = "text" THEN 3 ELSE IF node.kind = "expr" THEN 2 ELSE 1

\* what an else-branch block can be: an element with v-else has neither v-if
\* nor v-pre
BlockKinds == {"div", "for", "comp", "tfor"}

\* what a second child is: a text or an element without children
SecondChildren ==
  {Node("text", << >>, << >>), Node("expr", << >>, << >>), Node("div", << >>, << >>)}

\* the trees of n nodes, from those of n - 1 nodes (less) and of n - 2 nodes
\* (lesser): an element has a first child of any shape and may have a second
\* child; an element with v-if may have one else-branch, which is an element
grow(less, lesser) ==
  {Node(kind, << c >>, << >>) : kind \in ElementKinds, c \in less}
  \cup {Node(kind, << c, d >>, << >>) :
          kind \in ElementKinds, c \in lesser, d \in SecondChildren}
  \cup {Node(kind, << >>, << [b EXCEPT !.isElse = TRUE] >>) :
          kind \in {"if", "forif"}, b \in {t \in less : t.kind \in BlockKinds}}
  \cup {Node(kind, << c >>, << [b EXCEPT !.isElse = TRUE] >>) :
          kind \in {"if", "forif"}, c \in SecondChildren,
          b \in {t \in lesser : t.kind \in BlockKinds}}

SingleNodes ==
  {Node("text", << >>, << >>), Node("expr", << >>, << >>)}
  \cup {Node(kind, << >>, << >>) : kind \in ElementKinds}

\* the trees of 2, 3 and 4 nodes, as far as the trees of MaxNodes nodes are
\* grown from them
TwoNodes == IF MaxNodes > 2 THEN grow(SingleNodes, {}) ELSE {}
ThreeNodes == IF MaxNodes > 3 THEN grow(TwoNodes, SingleNodes) ELSE {}
FourNodes == IF MaxNodes > 4 THEN grow(ThreeNodes, TwoNodes) ELSE {}

\* the trees of MaxNodes - 1 nodes, of MaxNodes - 2 nodes, and all those of
\* fewer than MaxNodes nodes
LessNodes ==
  CASE MaxNodes = 2 -> SingleNodes
    [] MaxNodes = 3 -> TwoNodes
    [] MaxNodes = 4 -> ThreeNodes
    [] MaxNodes = 5 -> FourNodes

LesserNodes ==
  CASE MaxNodes = 2 -> {}
    [] MaxNodes = 3 -> SingleNodes
    [] MaxNodes = 4 -> TwoNodes
    [] MaxNodes = 5 -> ThreeNodes

FewerNodes == SingleNodes \cup TwoNodes \cup ThreeNodes \cup FourNodes

tagOf(node) ==
  CASE node.kind = "comp" -> "my-comp"
    [] node.kind = "tfor" -> "template"
    [] OTHER -> "div"

hasFor(node) == node.kind \in {"for", "tfor", "forif"}

\* options.isReservedTag of the web platform, on the tags of the trees
isPlatformReservedTag(tag) == tag \in {"div", "template"}

\* isBuiltInTag = makeMap('slot,component', true)
isBuiltInTag(tag) == tag \in {"slot", "component"}

\* Object.keys(node).every(isStaticKey): no key beside type, tag, attrsList,
\* attrsMap, plain, parent, children, attrs, start, end, rawAttrsMap
onlyStaticKeys(node) == node.kind = "div" /\ ~node.isElse

\* isDirectChildOfTemplateFor(node); parents are the ancestors of the node,
\* the nearest first
RECURSIVE isDirectChildOfTemplateFor(_)
isDirectChildOfTemplateFor(parents) ==
  IF parents = << >> THEN FALSE
  ELSE IF tagOf(Head(parents)) # "template" THEN FALSE
  ELSE IF hasFor(Head(parents)) THEN TRUE
  ELSE isDirectChildOfTemplateFor(Tail(parents))

\* isStatic(node)
isStatic(node, parents) ==
  IF typeOf3(node) = 2 THEN FALSE
  ELSE IF typeOf3(node) = 3 THEN TRUE
  ELSE node.kind = "pre" \/
         (/\ node.kind \notin {"if", "forif"} /\ ~hasFor(node)
          /\ ~isBuiltInTag(tagOf(node))
          /\ isPlatformReservedTag(tagOf(node))
          /\ ~isDirectChildOfTemplateFor(parents)
          /\ onlyStaticKeys(node))

staticAsFirst(first, children, blocks) == first

\* node.static after the loops of markStatic: false once a child or an
\* else-branch block is not static
staticAfter(first, children, blocks) ==
  /\ first
  /\ \A i \in 1..Len(children) : children[i].static = "true"
  /\ \A i \in 1..Len(blocks) : blocks[i].static = "true"

\* markStatic(node): the node with the flags of its subtree set
RECURSIVE markStatic(_, _)
markStatic(node, parents) ==
  LET first == isStatic(node, parents)
      children == [i \in 1..Len(node.children) |->
                     markStatic(node.children[i], << node >> \o parents)]
      blocks == [i \in 1..Len(node.blocks) |->
                   markStatic(node.blocks[i], parents)]
      static == staticAfter(first, children, blocks)
  IN IF typeOf3(node) # 1 \/ ~isPlatformReservedTag(tagOf(node))
     THEN [node EXCEPT !.static = Flag(first), !.first = Flag(first)]
     ELSE [node EXCEPT !.static = Flag(static), !.first = Flag(first), !.visited = TRUE,
                       !.children = children, !.blocks = blocks]

qualifiesWithText(node) == node.static = "true" /\ Len(node.children) > 0

\* the condition of a static root
qualifies(node) ==
  /\ node.static = "true"
  /\ Len(node.children) > 0
  /\ ~(Len(node.children) = 1 /\ typeOf3(node.children[1]) = 3)

RECURSIVE markStaticRootsDeep(_, _)
markStaticRootsDeep(node, isInFor) ==
  LET inFor == IF node.static = "true" THEN [node EXCEPT !.staticInFor = Flag(isInFor)]
               ELSE node
  IN IF typeOf3(node) # 1 THEN node
     ELSE [inFor EXCEPT
             !.staticRoot = Flag(qualifies(node)),
             !.children = [i \in 1..Len(node.children) |->
                             markStaticRootsDeep(node.children[i], isInFor \/ hasFor(node))],
             !.blocks = [i \in 1..Len(node.blocks) |->
                           markStaticRootsDeep(node.blocks[i], isInFor)]]

\* markStaticRoots(node, isInFor)
RECURSIVE markStaticRoots(_, _)
markStaticRoots(node, isInFor) ==
  LET inFor == IF node.static = "true" THEN [node EXCEPT !.staticInFor = Flag(isInFor)]
               ELSE node
  IN IF typeOf3(node) # 1 THEN node
     ELSE IF qualifies(node) THEN [inFor EXCEPT !.staticRoot = "true"]
     ELSE [inFor EXCEPT
             !.staticRoot = "false",
             !.children = [i \in 1..Len(node.children) |->
                             markStaticRoots(node.children[i], isInFor \/ hasFor(node))],
             !.blocks = [i \in 1..Len(node.blocks) |->
                           markStaticRoots(node.blocks[i], isInFor)]]

\* parsed is the tree as optimize received it
ParsedAst(root) == [kind |-> "ast", at |-> "parsed", root |-> root, parsed |-> root]

\* the trees of up to MaxNodes nodes: those of fewer nodes, and those grown
\* from them by one element at the root
CpAstInit ==
  \/ \E root \in FewerNodes : cp = ParsedAst(root)
  \/ \E kind \in ElementKinds, c \in LessNodes : cp = ParsedAst(Node(kind, << c >>, << >>))
  \/ \E kind \in ElementKinds, c \in LesserNodes, d \in SecondChildren :
       cp = ParsedAst(Node(kind, << c, d >>, << >>))
  \/ \E kind \in {"if", "forif"}, b \in {t \in LessNodes : t.kind \in BlockKinds} :
       cp = ParsedAst(Node(kind, << >>, << [b EXCEPT !.isElse = TRUE] >>))
  \/ \E kind \in {"if", "forif"}, c \in SecondChildren,
        b \in {t \in LesserNodes : t.kind \in BlockKinds} :
       cp = ParsedAst(Node(kind, << c >>, << [b EXCEPT !.isElse = TRUE] >>))

\* optimize, first pass: markStatic(root)
CpMarkStatic ==
  /\ cp.kind = "ast" /\ cp.at = "parsed"
  /\ cp' = [cp EXCEPT !.at = "marked", !.root = markStatic(cp.root, << >>)]
  /\ UNCHANGED exceptCp

\* optimize, second pass: markStaticRoots(root, false)
CpMarkStaticRoots ==
  /\ cp.kind = "ast" /\ cp.at = "marked"
  /\ cp' = [cp EXCEPT !.at = "optimized", !.root = markStaticRoots(cp.root, FALSE)]
  /\ UNCHANGED exceptCp

OpNext == CpMarkStatic \/ CpMarkStaticRoots

InitOptimize == CpAstInit /\ EvIdle /\ ObIdle /\ RxIdle /\ GlIdle /\ MgIdle /\ InIdle /\ TvIdle /\ UlIdle

SpecOptimize == InitOptimize /\ [][OpNext]_vars

(***************************************************************************)
(* The nodes of a tree, each with where it lies: inFor, below an element   *)
(* with v-for, through children or else-branches; belowRoot, below an      *)
(* element with staticRoot = true.                                         *)
(***************************************************************************)

Placed(node, inFor, belowRoot) == [node |-> node, inFor |-> inFor, belowRoot |-> belowRoot]

RECURSIVE nodesOf(_, _, _)
nodesOf(node, inFor, belowRoot) ==
  LET below == belowRoot \/ node.staticRoot = "true"
      within == inFor \/ hasFor(node)
  IN {Placed(node, inFor, belowRoot)}
       \cup UNION {nodesOf(node.children[i], within, below) : i \in 1..Len(node.children)}
       \cup UNION {nodesOf(node.blocks[i], within, below) : i \in 1..Len(node.blocks)}

Marked == cp.kind = "ast" /\ cp.at \in {"marked", "optimized"}

Optimized == cp.kind = "ast" /\ cp.at = "optimized"

\* C28: after optimize, every element with staticRoot = true is static, has
\* at least one child, and its children are not a single plain text (type 3)
C28_StaticRoot ==
  Optimized =>
    \A d \in nodesOf(cp.root, FALSE, FALSE) :
      d.node.staticRoot = "true" =>
        /\ typeOf3(d.node) = 1
        /\ d.node.static = "true"
        /\ Len(d.node.children) >= 1
        /\ ~(Len(d.node.children) = 1 /\ d.node.children[1].kind = "text")

\* a static root with two children, one of them a plain text
C28_Witness ==
  /\ Optimized
  /\ \E d \in nodesOf(cp.root, FALSE, FALSE) :
       /\ d.node.staticRoot = "true" /\ Len(d.node.children) = 2
       /\ d.node.children[2].kind = "text"

\* C29, as the specification has it: after optimize, every static node
\* inside an element with v-for, at any depth, through children or
\* else-branches, has staticInFor = true
C29_StaticInFor ==
  Optimized =>
    \A d \in nodesOf(cp.root, FALSE, FALSE) :
      (d.inFor /\ d.node.static = "true") => d.node.staticInFor = "true"

\* C29, of the elements that markStaticRoots comes to only: every static
\* element inside an element with v-for and not below a static root has
\* staticInFor = true.  The else-branch of an element with v-for and v-if
\* is rendered in the loop, and markStaticRoots goes into it with the
\* isInFor it was called with
C29_VisitedElementsInFor ==
  Optimized =>
    \A d \in nodesOf(cp.root, FALSE, FALSE) :
      (d.inFor /\ ~d.belowRoot /\ typeOf3(d.node) = 1 /\ d.node.static = "true")
        => d.node.staticInFor = "true"

\* <ul><li v-for="i in 3"><span>static</span></li></ul>
ScenarioF ==
  Node("div", << Node("for", << Node("div", << Node("text", << >>, << >>) >>, << >>) >>,
                      << >>) >>, << >>)

\* C29, Scenario F: the <span> is static with staticInFor = true and
\* staticRoot = false, and its parent <li> is not static
C29_ScenarioF ==
  (Optimized /\ cp.parsed = ScenarioF) =>
    LET li == cp.root.children[1]
        span == li.children[1]
    IN /\ span.static = "true" /\ span.staticInFor = "true" /\ span.staticRoot = "false"
       /\ li.static = "false"

C29_ScenarioDone == Optimized /\ cp.parsed = ScenarioF

\* C30: in a markStatic pass the static flag of a node never goes from false
\* to true (a node that is static at the end was static when isStatic
\* answered), and at the end every static element whose children were
\* visited has only static children and only static else-branch blocks
C30_MarkStaticMonotonic ==
  Marked =>
    \A d \in nodesOf(cp.root, FALSE, FALSE) :
      /\ d.node.static = "true" => d.node.first = "true"
      /\ (typeOf3(d.node) = 1 /\ d.node.static = "true" /\ d.node.visited) =>
           /\ \A i \in 1..Len(d.node.children) : d.node.children[i].static = "true"
           /\ \A i \in 1..Len(d.node.blocks) : d.node.blocks[i].static = "true"

\* an element went from static to not static for a child, beside a static
\* element that has a child
C30_Witness ==
  /\ cp.kind = "ast" /\ cp.at = "marked"
  /\ \E d \in nodesOf(cp.root, FALSE, FALSE) :
       d.node.first = "true" /\ d.node.static = "false"
  /\ \E d \in nodesOf(cp.root, FALSE, FALSE) :
       /\ typeOf3(d.node) = 1 /\ d.node.static = "true" /\ d.node.visited
       /\ Len(d.node.children) >= 1

\* C40: after optimize no static root contains another static root: the
\* nodes below an element with staticRoot = true were not visited by
\* markStaticRoots and have no staticRoot
C40_NoNestedStaticRoot ==
  Optimized =>
    \A d \in nodesOf(cp.root, FALSE, FALSE) :
      d.belowRoot => d.node.staticRoot = "unset"

\* below a static root there is an element that is static and has an
\* element as child
C40_Witness ==
  /\ Optimized
  /\ \E d \in nodesOf(cp.root, FALSE, FALSE) :
       /\ d.belowRoot /\ d.node.static = "true"
       /\ Len(d.node.children) >= 1 /\ typeOf3(d.node.children[1]) = 1

(***************************************************************************)
(* PART 11 - initData and getData                                          *)
(*                                                                         *)
(* The active-target stack is targetStack, with Dep.target its top; a      *)
(* target is a watcher or undefined.  The data factory is a function of    *)
(* the user: it returns an object, returns a number, or throws; it may     *)
(* read a reactive property (which subscribes Dep.target if there is one)  *)
(* and it may evaluate a computed property, which pushes the watcher of    *)
(* the computed and pops it again.                                         *)
(***************************************************************************)

MaxTargets == 2

Targets == {"w1", "w2", "none"}

Factories ==
  [result : {"object", "number", "throws"}, reads : BOOLEAN, evaluates : BOOLEAN]

topOf(stack) == IF stack = << >> THEN "none" ELSE stack[Len(stack)]

\* pushTarget(target); pushTarget() pushes undefined
pushTarget(d, t) == [d EXCEPT !.targetStack = Append(@, t), !.target = t]

\* popTarget()
popTarget(d) ==
  [d EXCEPT !.targetStack = take(@, Len(@) - 1),
            !.target = topOf(take(d.targetStack, Len(d.targetStack) - 1))]

\* data.call(vm, vm): seen is Dep.target as the factory found it, captured
\* the targets that a read in the factory subscribed
dataCall(d, factory) ==
  LET entered == [d EXCEPT !.seen = << d.target >>]
      read == IF factory.reads /\ entered.target # "none"
              THEN [entered EXCEPT !.captured = Append(@, entered.target)]
              ELSE entered
      evaluated == IF factory.evaluates THEN popTarget(pushTarget(read, "computed"))
                   ELSE read
  IN [evaluated EXCEPT !.thrown = (factory.result = "throws"),
                       !.data = IF factory.result = "throws" THEN "unset" ELSE factory.result]

\* handleError(e, vm, info): the error goes to the error handlers, and the
\* caller goes on
handleError(d, info) == [d EXCEPT !.errors = Append(@, info), !.thrown = FALSE]

getDataPopOnReturn(d, factory) ==
  LET called == dataCall(pushTarget(d, "none"), factory)
  IN IF called.thrown THEN [handleError(called, "data()") EXCEPT !.data = "empty"]
     ELSE popTarget(called)

\* getData(data, vm)
getData(d, factory) ==
  LET called == dataCall(pushTarget(d, "none"), factory)
      caught == IF called.thrown
                THEN [handleError(called, "data()") EXCEPT !.data = "empty"]
                ELSE called
  IN popTarget(caught)

\* initData after getData: what is not a plain object becomes {} with a
\* warning, then the keys are proxied and the data is observed
initDataOf(d) ==
  LET plain == IF d.data \in {"object", "empty"} THEN d
               ELSE [d EXCEPT !.data = "empty", !.warned = TRUE]
  IN [plain EXCEPT !.at = "observed"]

InDataInit ==
  \E stack \in SeqsUpTo(Targets, MaxTargets), factory \in Factories :
    inst = [kind |-> "getData", at |-> "initData", factory |-> factory,
            targetStack |-> stack, target |-> topOf(stack), found |-> stack,
            seen |-> << >>, captured |-> << >>, thrown |-> FALSE, data |-> "unset",
            errors |-> << >>, warned |-> FALSE]

\* initData(vm) with a data function
InInitData ==
  /\ inst.kind = "getData" /\ inst.at = "initData"
  /\ inst' = initDataOf(getData(inst, inst.factory))
  /\ UNCHANGED exceptIn

DataNext == InInitData

InitData == InDataInit /\ EvIdle /\ ObIdle /\ RxIdle /\ GlIdle /\ MgIdle /\ CpIdle /\ TvIdle /\ UlIdle

SpecData == InitData /\ [][DataNext]_vars

(***************************************************************************)
(* C33 - getData runs the data factory with no active target and leaves    *)
(* the active-target stack as it found it, also when the factory throws;   *)
(* then the error goes to the error handler, the instance gets an empty    *)
(* data object and the initialisation goes on.                             *)
(***************************************************************************)
C33_GetData ==
  (inst.kind = "getData" /\ inst.at = "observed") =>
    /\ inst.seen = << "none" >>
    /\ inst.captured = << >>
    /\ inst.targetStack = inst.found
    /\ inst.target = topOf(inst.found)
    /\ inst.factory.result = "throws" =>
         inst.errors = << "data()" >> /\ inst.data = "empty" /\ ~inst.thrown
    /\ inst.factory.result # "throws" => inst.errors = << >>

\* the factory was called while a watcher was the active target, read a
\* reactive property, and threw
C33_Witness ==
  /\ inst.kind = "getData" /\ inst.at = "observed"
  /\ inst.found = << "w1", "w2" >>
  /\ inst.factory = [result |-> "throws", reads |-> TRUE, evaluates |-> TRUE]
  /\ inst.data = "empty"

(***************************************************************************)
(* PART 12 - traverse                                                      *)
(*                                                                         *)
(* The object graph g has the objects 1..MaxObjects; 0 stands for a        *)
(* primitive value.  An object is a plain object, an array, a frozen       *)
(* object or a VNode; ob tells whether it has __ob__ (its dep id is the    *)
(* number of the object); refs are the values of its keys or elements in   *)
(* order.  seenObjects is the set of the module, shared by all calls.      *)
(* Recursion that does not end exhausts the call stack and throws a        *)
(* RangeError.  An observed object is descended into once in a call, and   *)
(* between two of them a path without a cycle passes through fewer than    *)
(* MaxObjects objects without __ob__: a call stack deeper than StackLimit  *)
(* is on a cycle of objects without __ob__ and would grow for ever.        *)
(***************************************************************************)

MaxObjects == 2

MaxRefs == 2

MaxCalls == 2

Objects == 1..MaxObjects

StackLimit == (MaxObjects + 1) * (MaxObjects + 1)

ObjectKinds == {"object", "array", "frozen", "vnode"}

NoDescents == [o \in Objects |-> 0]

\* the guard of _traverse: neither array nor object, or frozen, or a VNode
skipped(g, val) == val = 0 \/ g.kind[val] \in {"frozen", "vnode"}

RECURSIVE traverseEach(_, _, _, _, _)
RECURSIVE traverseValue(_, _, _, _)

\* while (i--) _traverse(val[i], seen)  and  while (i--) _traverse(val[keys[i]], seen)
traverseEach(g, refs, i, t, depth) ==
  IF i = 0 \/ t.thrown THEN t
  ELSE traverseEach(g, refs, i - 1, traverseValue(g, refs[i], t, depth), depth)

\* _traverse(val, seen) at the given depth of the call stack
traverseValue(g, val, t, depth) ==
  IF t.thrown \/ skipped(g, val) THEN t
  ELSE IF g.ob[val] /\ val \in t.seen THEN t
  ELSE IF depth > StackLimit THEN [t EXCEPT !.thrown = TRUE]
  ELSE traverseEach(g, g.refs[val], Len(g.refs[val]),
                    [t EXCEPT !.seen = IF g.ob[val] THEN @ \cup {val} ELSE @,
                              !.descents[val] = @ + 1],
                    depth + 1)

\* traverse(val): _traverse(val, seenObjects), then seenObjects.clear()
\* unless _traverse threw
traverse(g, val, seenObjects) ==
  LET t == traverseValue(g, val, [seen |-> seenObjects, descents |-> NoDescents,
                                   thrown |-> FALSE], 1)
  IN IF t.thrown THEN t ELSE [t EXCEPT !.seen = {}]

\* the object graphs; observe does not give a VNode an __ob__
TvInit ==
  \E kind \in [Objects -> ObjectKinds], ob \in [Objects -> BOOLEAN],
     refs \in [Objects -> SeqsUpTo(0..MaxObjects, MaxRefs)] :
    /\ \A o \in Objects : kind[o] = "vnode" => ~ob[o]
    /\ tv = [kind |-> "traverse", g |-> [kind |-> kind, ob |-> ob, refs |-> refs],
             seenObjects |-> {}, calls |-> 0, root |-> 0, seenBefore |-> {},
             descents |-> NoDescents, thrown |-> FALSE]

\* a call of traverse(val)
TvTraverse ==
  /\ tv.kind = "traverse" /\ tv.calls < MaxCalls
  /\ \E val \in 0..MaxObjects :
       LET t == traverse(tv.g, val, tv.seenObjects)
       IN tv' = [tv EXCEPT !.calls = @ + 1, !.root = val, !.seenBefore = tv.seenObjects,
                           !.seenObjects = t.seen, !.descents = t.descents,
                           !.thrown = t.thrown]
  /\ UNCHANGED exceptTv

TvNext == TvTraverse

InitTraverse ==
  TvInit /\ EvIdle /\ ObIdle /\ RxIdle /\ GlIdle /\ MgIdle /\ InIdle /\ CpIdle /\ UlIdle

SpecTraverse == InitTraverse /\ [][TvNext]_vars

\* what the last call would have done had seenObjects been empty
freshCall == traverse(tv.g, tv.root, {})

(***************************************************************************)
(* C34 - traverse(val) terminates on every finite object graph, cyclic     *)
(* ones included: it returns; it descends into each observed container at  *)
(* most once in a call, never into a frozen value or a VNode; and it       *)
(* leaves seenObjects empty, so that a call does what it would do as the   *)
(* first call.                                                             *)
(***************************************************************************)
C34_Traverse ==
  (tv.kind = "traverse" /\ tv.calls > 0) =>
    /\ ~tv.thrown
    /\ \A o \in Objects : tv.g.ob[o] => tv.descents[o] <= 1
    /\ \A o \in Objects : tv.g.kind[o] \in {"frozen", "vnode"} => tv.descents[o] = 0
    /\ tv.seenObjects = {}
    /\ tv.descents = freshCall.descents

\* the objects without __ob__ that _traverse descends into
unobserved(g) == {o \in Objects : ~g.ob[o] /\ ~skipped(g, o)}

\* the objects that o refers to through objects of the set S, in at most n steps
RECURSIVE reaches(_, _, _, _)
reaches(g, from, S, n) ==
  IF n = 0 THEN from
  ELSE reaches(g, from \cup ({g.refs[o][i] : o \in from \cap S, i \in 1..MaxRefs} \ {0}),
               S, n - 1)

\* the references of an object, padded: refs[o][i] is 0 beyond its length
padded(g) ==
  [g EXCEPT !.refs = [o \in Objects |->
                        [i \in 1..MaxRefs |-> IF i <= Len(g.refs[o]) THEN g.refs[o][i] ELSE 0]]]

\* a cycle that passes through objects without __ob__ only
unobservedCycle(g) ==
  \E o \in unobserved(g) :
    o \in reaches(padded(g), {padded(g).refs[o][i] : i \in 1..MaxRefs} \ {0},
                  unobserved(g), MaxObjects)

\* what the code does: on the graphs in which every cycle passes through an
\* observed container, and as long as no earlier call has thrown, traverse
\* returns and does all of C34
C34_ObservedCycles ==
  (tv.kind = "traverse" /\ tv.calls > 0 /\ ~unobservedCycle(tv.g) /\ tv.seenBefore = {}) =>
    /\ ~tv.thrown
    /\ \A o \in Objects : tv.g.ob[o] => tv.descents[o] <= 1
    /\ \A o \in Objects : tv.g.kind[o] \in {"frozen", "vnode"} => tv.descents[o] = 0
    /\ tv.seenObjects = {}

\* an observed object was visited, then an object without __ob__ that
\* refers to itself: the call threw and seenObjects kept the dep id
C34_SeenLeftBehind ==
  /\ tv.kind = "traverse" /\ tv.calls = 1 /\ tv.thrown
  /\ tv.seenObjects # {}

(***************************************************************************)
(* PART 13 - shouldObserve during initInjections and initProps             *)
(*                                                                         *)
(* An instance is constructed: initInjections, then initProps.  A prop is  *)
(* given by the parent or not, and has no default, a default value, a      *)
(* default factory that constructs another instance with props, or a       *)
(* default factory that throws; an injection is provided or not and has    *)
(* the same kinds of default.  The run d carries shouldObserve, the        *)
(* defineReactive calls with shouldObserve as each found it, what each     *)
(* validateProp found and left, and whether an exception is on its way     *)
(* out.                                                                    *)
(***************************************************************************)

MaxProps == 2

MaxInjects == 1

DefaultKinds == {"none", "value", "creates", "throws"}

ObservingProps == SeqsUpTo([given : BOOLEAN, default : DefaultKinds], MaxProps)

ObservingInjects == SeqsUpTo([provided : BOOLEAN, default : DefaultKinds], MaxInjects)

\* toggleObserving(value)
toggleObserving(d, value) == [d EXCEPT !.shouldObserve = value]

\* a default factory that constructs an instance with props: the initProps
\* of that instance ends with toggleObserving(true)
constructsInstance(d) == toggleObserving(d, TRUE)

\* the default of a prop or of an injection is taken
takeDefault(d, default) ==
  CASE default = "creates" -> constructsInstance(d)
    [] default = "throws" -> [d EXCEPT !.thrown = TRUE]
    [] OTHER -> d

\* validateProp(key, propsOptions, propsData, vm) as far as shouldObserve goes
validatePropObserving(d, prop) ==
  LET defaulted == takeDefault(d, prop.default)
      prevShouldObserve == defaulted.shouldObserve
      observed == toggleObserving(toggleObserving(defaulted, TRUE), prevShouldObserve)
      left == IF prop.given THEN d ELSE IF defaulted.thrown THEN defaulted ELSE observed
  IN [left EXCEPT !.validated = Append(@, [found |-> d.shouldObserve,
                                           left |-> left.shouldObserve])]

\* defineReactive(obj, key, value)
defineReactiveObserving(d, by, isRoot) ==
  [d EXCEPT !.defined = Append(@, [by |-> by, isRoot |-> isRoot,
                                  shouldObserve |-> d.shouldObserve])]

\* for (const key in propsOptions) of initProps
RECURSIVE initPropsLoop(_, _, _)
initPropsLoop(d, props, isRoot) ==
  IF props = << >> \/ d.thrown THEN d
  ELSE LET validated == validatePropObserving(d, Head(props))
       IN IF validated.thrown THEN validated
          ELSE initPropsLoop(defineReactiveObserving(validated, "initProps", isRoot),
                             Tail(props), isRoot)

\* initProps(vm, propsOptions)
initPropsObserving(d, props, isRoot) ==
  LET looped == initPropsLoop(IF isRoot THEN d ELSE toggleObserving(d, FALSE), props, isRoot)
  IN IF looped.thrown THEN looped ELSE toggleObserving(looped, TRUE)

\* resolveInject: an injection that is not provided takes its default
RECURSIVE resolveInjectObserving(_, _)
resolveInjectObserving(d, injects) ==
  IF injects = << >> \/ d.thrown THEN d
  ELSE resolveInjectObserving(IF Head(injects).provided THEN d
                              ELSE takeDefault(d, Head(injects).default),
                              Tail(injects))

\* the keys of the result: an injection neither provided nor defaulted is
\* left out
resolvedKeys(injects) ==
  SelectSeq(injects, LAMBDA i : i.provided \/ i.default # "none")

RECURSIVE defineInjections(_, _)
defineInjections(d, n) ==
  IF n = 0 THEN d ELSE defineInjections(defineReactiveObserving(d, "initInjections", FALSE), n - 1)

\* initInjections(vm)
initInjectionsObserving(d, injects) ==
  LET resolved == resolveInjectObserving(d, injects)
  IN IF resolved.thrown \/ injects = << >> THEN resolved
     ELSE toggleObserving(defineInjections(toggleObserving(resolved, FALSE),
                                           Len(resolvedKeys(injects))), TRUE)

exceptObserving ==
  << evVars, target, k1Observed, lastOp, rxVars, glVars, mgVars, cpVars, tvVars, ulVars >>

InObservingInit ==
  \E props \in ObservingProps, injects \in ObservingInjects, isRoot \in BOOLEAN :
    inst = [kind |-> "observing", at |-> "initInjections", props |-> props,
            injects |-> injects, isRoot |-> isRoot,
            defined |-> << >>, validated |-> << >>, thrown |-> FALSE]

\* what an operation starts from, and where it leaves the instance
running == [shouldObserve |-> shouldObserve, defined |-> inst.defined,
            validated |-> inst.validated, thrown |-> FALSE]

ran(d, at) ==
  /\ inst' = [inst EXCEPT !.at = IF d.thrown THEN "thrown" ELSE at,
                          !.defined = d.defined, !.validated = d.validated,
                          !.thrown = d.thrown]
  /\ shouldObserve' = d.shouldObserve
  /\ UNCHANGED exceptObserving

\* initInjections(vm) in _init
InInitInjections ==
  /\ inst.kind = "observing" /\ inst.at = "initInjections"
  /\ ran(initInjectionsObserving(running, inst.injects), "initState")

\* initState(vm): initProps if there are props
InInitProps ==
  /\ inst.kind = "observing" /\ inst.at = "initState"
  /\ ran(IF inst.props = << >> THEN running
         ELSE initPropsObserving(running, inst.props, inst.isRoot), "created")

ObservingNext == InInitInjections \/ InInitProps

InitObserving ==
  InObservingInit /\ EvIdle /\ ObIdle /\ RxIdle /\ GlIdle /\ MgIdle /\ CpIdle /\ TvIdle
    /\ UlIdle

SpecObserving == InitObserving /\ [][ObservingNext]_vars

(***************************************************************************)
(* C35 - observation is switched off in a scope: at every defineReactive   *)
(* call of the initProps of an instance that is not the root and of        *)
(* initInjections shouldObserve is false, validateProp leaves              *)
(* shouldObserve as it found it, and shouldObserve is true once            *)
(* initInjections or initProps is over, also when a default constructs     *)
(* another instance or throws.                                             *)
(***************************************************************************)
C35_ObservingScoped ==
  inst.kind = "observing" =>
    /\ \A k \in 1..Len(inst.defined) :
         (inst.defined[k].by = "initInjections" \/ ~inst.defined[k].isRoot) =>
           ~inst.defined[k].shouldObserve
    /\ \A k \in 1..Len(inst.validated) : inst.validated[k].left = inst.validated[k].found
    /\ shouldObserve

\* what the code does when no default of a prop constructs an instance or
\* throws
C35_PlainDefaults ==
  (inst.kind = "observing"
     /\ \A i \in 1..Len(inst.props) : inst.props[i].given
                                        \/ inst.props[i].default \in {"none", "value"}) =>
    /\ \A k \in 1..Len(inst.defined) :
         (inst.defined[k].by = "initInjections" \/ ~inst.defined[k].isRoot) =>
           ~inst.defined[k].shouldObserve
    /\ \A k \in 1..Len(inst.validated) : inst.validated[k].left = inst.validated[k].found
    /\ shouldObserve

\* the default factory of a prop threw in an instance that is not the root:
\* shouldObserve is left false
C35_LeftOff ==
  /\ inst.kind = "observing" /\ inst.at = "thrown" /\ ~inst.isRoot
  /\ ~shouldObserve

(***************************************************************************)
(* PART 14 - the listeners of a component: updateListeners                 *)
(*                                                                         *)
(* A parent renders a component with a listeners object, a fresh one at    *)
(* each render: a name (an event name behind its modifier marks) has a     *)
(* handler, the value undefined, or is no key of the object.  A function   *)
(* is a user function (h names it, id = 0) or a function object made here  *)
(* (id > 0 is its place in objs): an invoker with its field fns, or the    *)
(* once handler wrapped around an invoker fn, which may get a field fns.   *)
(* vm._events maps an event name to the array of registered functions.     *)
(***************************************************************************)

MaxUpdates == 2

ListenerNames == {<<"a">>, <<"~", "a">>, <<"!", "a">>}

\* for (name in on): the order of the keys
NameOrder == << <<"a">>, <<"~", "a">>, <<"!", "a">> >>

UserFns == {"h1", "h2"}

NoFn == "undefined"

NoProperty == "absent"

UserValue(h) == [h |-> h, id |-> 0]

ObjectRef(id) == [h |-> "", id |-> id]

ListenerValues == {UserValue(h) : h \in UserFns \cup {NoFn, NoProperty}}

isUndef(v) == v.h \in {NoFn, NoProperty}

hasKey(object, name) == object[name].h # NoProperty

\* normalizeEvent(name): the marks &, ~ and ! are taken off the front
normalizeEvent(name) ==
  LET passive == name # << >> /\ Head(name) = "&"
      unpassive == IF passive THEN Tail(name) ELSE name
      once == unpassive # << >> /\ Head(unpassive) = "~"
      plain == IF once THEN Tail(unpassive) ELSE unpassive
      capture == plain # << >> /\ Head(plain) = "!"
  IN [name |-> IF capture THEN Tail(plain) ELSE plain,
      once |-> once, capture |-> capture, passive |-> passive]

ListenerEvents == {normalizeEvent(name).name : name \in ListenerNames}

\* createFnInvoker(fns, vm): the new invoker is the last of objs
createFnInvoker(u, fns) ==
  [u EXCEPT !.objs = Append(@, [type |-> "invoker", fns |-> fns, fn |-> 0])]

\* createOnceHandler(event, fn): the new once handler is the last of objs
createOnceHandler(u, fn) ==
  [u EXCEPT !.objs = Append(@, [type |-> "once", fns |-> NoFn, fn |-> fn])]

\* add(event, fn): target.$on(event, fn)
add(u, key, event, fn) ==
  [u EXCEPT !.events[event] = Append(@, fn.id),
            !.calls = Append(@, [op |-> "add", key |-> key, event |-> event])]

\* the place of the last registration of fn for an event, 0 if there is none
lastPlace(cbs, fn) ==
  SetMax({0} \cup {i \in 1..Len(cbs) : cbs[i] = fn.id})

\* remove(event, fn): target.$off(event, fn)
remove(u, key, event, fn) ==
  LET cbs == u.events[event]
      called == [u EXCEPT !.calls = Append(@, [op |-> "remove", key |-> key,
                                               event |-> event])]
  IN IF cbs = << >> THEN called
     ELSE IF isUndef(fn) THEN [called EXCEPT !.events[event] = << >>]
     ELSE IF lastPlace(cbs, fn) = 0 THEN called
     ELSE [called EXCEPT !.events[event] = RemoveAt(cbs, lastPlace(cbs, fn))]

\* the once handler and the add of a name new to the listeners
addNew(u, name, event) ==
  LET invoked == createFnInvoker(u, u.on[name].h)
      invoker == Len(invoked.objs)
      wrapped == createOnceHandler(invoked, invoker)
      made == IF event.once THEN wrapped ELSE invoked
      cur == ObjectRef(Len(made.objs))
  IN add([made EXCEPT !.on[name] = cur], name, event.name, cur)

\* the body of for (name in on)
updateName(u, oldOn, name) ==
  LET cur == u.on[name]
      old == oldOn[name]
  IN IF isUndef(cur) THEN u
     ELSE IF isUndef(old) THEN addNew(u, name, normalizeEvent(name))
     ELSE IF cur # old THEN [u EXCEPT !.objs[old.id].fns = cur.h, !.on[name] = old]
     ELSE u

RECURSIVE updateNames(_, _, _)
updateNames(u, oldOn, i) ==
  IF i > Len(NameOrder) THEN u
  ELSE updateNames(IF hasKey(u.on, NameOrder[i]) THEN updateName(u, oldOn, NameOrder[i])
                   ELSE u,
                   oldOn, i + 1)

\* for (name in oldOn)
RECURSIVE removeNames(_, _, _)
removeNames(u, oldOn, i) ==
  IF i > Len(NameOrder) THEN u
  ELSE removeNames(IF hasKey(oldOn, NameOrder[i]) /\ isUndef(u.on[NameOrder[i]])
                   THEN remove(u, NameOrder[i], normalizeEvent(NameOrder[i]).name,
                               oldOn[NameOrder[i]])
                   ELSE u,
                   oldOn, i + 1)

\* updateListeners(on, oldOn, add, remove, createOnceHandler, vm)
updateListeners(u, oldOn) == removeNames(updateNames(u, oldOn, 1), oldOn, 1)

\* the user function that runs when a registered function is called
RECURSIVE calledBy(_, _)
calledBy(objs, id) ==
  IF objs[id].type = "once" THEN calledBy(objs, objs[id].fn) ELSE objs[id].fns

NoListeners == [name \in ListenerNames |-> UserValue(NoProperty)]

\* initEvents(vm): vm._events is empty, no listeners have been attached
UlInit ==
  ul = [kind |-> "listeners", on |-> NoListeners, given |-> NoListeners,
        oldGiven |-> NoListeners,
        events |-> [e \in ListenerEvents |-> << >>], objs |-> << >>, calls |-> << >>,
        updates |-> 0, once |-> FALSE, undef |-> FALSE]

\* updateComponentListeners(vm, listeners, oldListeners): the old listeners
\* are the object of the last call
UlUpdateComponentListeners ==
  /\ ul.kind = "listeners" /\ ul.updates < MaxUpdates
  /\ \E listeners \in [ListenerNames -> ListenerValues] :
       LET updated == updateListeners([ul EXCEPT !.on = listeners, !.calls = << >>], ul.on)
       IN ul' = [updated EXCEPT
                   !.given = listeners, !.oldGiven = ul.given,
                   !.updates = @ + 1,
                   !.once = @ \/ \E n \in ListenerNames :
                                   normalizeEvent(n).once /\ ~isUndef(listeners[n]),
                   !.undef = @ \/ \E n \in ListenerNames : listeners[n].h = NoFn]
  /\ UNCHANGED exceptUl

UlNext == UlUpdateComponentListeners

InitListeners ==
  UlInit /\ EvIdle /\ ObIdle /\ RxIdle /\ GlIdle /\ MgIdle /\ InIdle /\ CpIdle /\ TvIdle

SpecListeners == InitListeners /\ [][UlNext]_vars

\* the calls of add or remove for a key during the last update
callsOf(op, key) == {i \in 1..Len(ul.calls) : ul.calls[i].op = op /\ ul.calls[i].key = key}

\* the registrations in vm._events of the function the listeners hold for a name
registrations(name) ==
  LET cbs == ul.events[normalizeEvent(name).name]
  IN {i \in 1..Len(cbs) : cbs[i] = ul.on[name].id}

listenersUpdated ==
  \A name \in ListenerNames :
    LET now == ~isUndef(ul.given[name])
        before == ~isUndef(ul.oldGiven[name])
    IN /\ Cardinality(callsOf("add", name)) = (IF now /\ ~before THEN 1 ELSE 0)
       /\ Cardinality(callsOf("remove", name)) = (IF before /\ ~now THEN 1 ELSE 0)
       /\ now => /\ ul.on[name].id > 0
                 /\ Cardinality(registrations(name)) = 1
                 /\ calledBy(ul.objs, ul.on[name].id) = ul.given[name].h

(***************************************************************************)
(* C39 - updateListeners calls add exactly once for each name of the new   *)
(* listeners that the old ones lack, remove exactly once for each name of  *)
(* the old ones that the new ones lack, neither for a name in both, and    *)
(* after any sequence of updates each name of the latest listeners has     *)
(* exactly one function registered in vm._events, which calls the latest   *)
(* handler.                                                                *)
(***************************************************************************)
C39_Listeners == ul.kind = "listeners" => listenersUpdated

\* what the code does for listeners without the once modifier and without
\* undefined handlers
C39_PlainListeners == (ul.kind = "listeners" /\ ~ul.once /\ ~ul.undef) => listenersUpdated

\* a once listener whose handler has changed: the registered once handler
\* still calls the handler of the first render
C39_StaleOnce ==
  /\ ul.kind = "listeners"
  /\ \E name \in ListenerNames :
       /\ normalizeEvent(name).once
       /\ ~isUndef(ul.given[name]) /\ ul.on[name].id > 0
       /\ Cardinality(registrations(name)) = 1
       /\ calledBy(ul.objs, ul.on[name].id) # ul.given[name].h

====
